---------------------------- MODULE Spec2Model ----------------------------
(***************************************************************************)
(* A model of the MEMO runtime core (jay7-tech/memo):                      *)
(*   core/engine.py      EventBus, PerformanceMonitor, PerceptionPipeline  *)
(*   state/scene_state.py SceneState                                       *)
(*   reasoning/rules.py  RulesEngine                                       *)
(*   perception/gesture_recognizer.py, perception/emotion_detector.py      *)
(*                       the stability filter of the two detectors         *)
(*   interface/tts_engine.py TTSEngine                                     *)
(*   interface/dashboard.py, main.py  the dashboard's reads and commands   *)
(*                       and the orchestrator's iteration                  *)
(* Each component has its own next-state relations and specifications     *)
(* (SpecPerf, SpecSkip, SpecScene, SpecZones, SpecIdentity, SpecPipe,      *)
(* SpecRules, SpecObjects, SpecRobust, SpecHydration, SpecBus,             *)
(* SpecBusBurst, SpecBusStop, SpecBusBlocking, SpecStability, SpecTts,     *)
(* SpecPipeTrace, SpecWarm, SpecGreeting, SpecDash, SpecCommands,          *)
(* SpecPosture, SpecPose, SpecToggle, SpecSpeech);                         *)
(* the variables of the other components stay at their initial values.    *)
(*                                                                         *)
(* Time.  time.time() is modelled as an integer clock that never goes     *)
(* back but may return the same value on two successive reads (a coarse   *)
(* timer, two reads inside one timer tick).                                *)
(***************************************************************************)
EXTENDS Integers, Sequences, FiniteSets, TLC

VARIABLES
    \* ---- PerformanceMonitor
    clock,              \* the value time.time() returns now
    frame_times,        \* PerformanceMonitor.frame_times
    fps_result,         \* the last get_fps() call: the samples it saw and its value
    skip_call,          \* the last should_skip_frame() call: inputs and result
    \* ---- SceneState
    objects,            \* SceneState.objects: label -> {last_seen, bbox, position}
    human,              \* SceneState.human
    width,              \* SceneState.width
    scene_time,         \* the timestamp of the latest update() call
    upd,                \* the latest update() call: its labels and pose_data
    \* ---- PerceptionPipeline
    cache,              \* _last_detections, _last_pose, _last_identity
    providers,          \* _detector, _pose_estimator, _face_rec
    pool_running,       \* provider calls a worker of self.executor is running
    pool_pending,       \* provider calls queued in self.executor, oldest first
    proc,               \* the latest process() call: arguments, outcomes, result
    \* ---- RulesEngine
    rules,              \* the RulesEngine's fields
    focus_mode,         \* SceneState.focus_mode
    events,             \* the events of the latest check_rules() call
    fired,              \* per cooldown-gated category: its last two firing times
    trace,              \* the frames of an object-event run, oldest first
    raised,             \* the exception the latest check_rules() call raised
    \* ---- EventBus
    subscribers,        \* _subscribers: event type -> list of callbacks
    heap,               \* _event_queue.queue, the heap of (priority, time, event)
    running,            \* _running
    executor_shutdown,  \* _executor has been shut down
    worker,             \* the _process_events thread: position, event in hand
    exec_queue,         \* _safe_execute calls submitted to _executor, oldest first
    pubs,               \* the publish() calls so far
    invoked,            \* publish number -> callback -> times it was called
    blocked,            \* pool threads held by a callback that never returns
    \* ---- GestureRecognizer / EmotionDetector stability filter
    stability,          \* one detector: stability_frames, history, stable value
    frames,             \* the raw classification of every detect() call so far
    \* ---- TTSEngine
    tts,                \* the engine's fields, its worker and its callers
    \* ---- dashboard and orchestrator threads on the SceneState
    dash,               \* the update in progress, the reader's position and stats
    cmds,               \* the dashboard's commands and the frame loop's state
    \* ---- the orchestrator (MEMOApp)
    toggle,             \* focus toggle requests and the events they published
    speech              \* last_tts_time and the rule utterances given to speak()

perfVars == <<clock, frame_times, fps_result, skip_call>>
sceneVars == <<objects, human, width, scene_time, upd>>
pipeVars == <<cache, providers, pool_running, pool_pending, proc>>

rulesVars == <<rules, focus_mode, events, fired, trace, raised>>

busVars == <<subscribers, heap, running, executor_shutdown, worker, exec_queue,
             pubs, invoked, blocked>>

stabVars == <<stability, frames>>

ttsVars == <<tts>>

appVars == <<dash, cmds>>

orchVars == <<toggle, speech>>

vars == <<perfVars, sceneVars, pipeVars, rulesVars, busVars, stabVars, ttsVars,
          appVars, orchVars>>

-----------------------------------------------------------------------------
(* Bounds of the model                                                     *)

\* the cooldown runs end at MaxRulesTime, the object-event runs at
\* MaxObjectsTime with frames at most MaxObjectStep apart
MaxRulesTime == 125
MaxObjectsTime == 7
MaxObjectStep == 3

\* at most MaxPublish events are published, MaxBurst in a burst run,
\* MaxStopPublish in a stop run, MaxBlockingPublish in a blocking run
MaxPublish == 3
MaxBurst == 4
MaxStopPublish == 2
MaxBlockingPublish == 10

\* the robustness runs end at MaxRobustTime
MaxRobustTime == 3
\* the dashboard runs make MaxDashTime update() calls
MaxDashTime == 3
\* the posture runs make MaxPostureFrames ticks and end at MaxPostureTime
MaxPostureFrames == 6
MaxPostureTime == 123
\* the speech runs make MaxSpeechFrames ticks and end at MaxSpeechTime
MaxSpeechFrames == 4
MaxSpeechTime == 24
\* the dashboard posts MaxCommands requests, the frame loop makes at most
\* MaxIterations iterations
MaxCommands == 5
\* at most MaxToggles focus toggle requests are made
MaxToggles == 8
MaxIterations == 3
\* the greeting runs end at MaxGreetTime
MaxGreetTime == 9

\* should_skip_frame() is called with frame counts up to MaxFrameCount
MaxFrameCount == 13

\* detectors are constructed with stability_frames up to MaxStabilityFrames
\* and see at most MaxFrames frames
MaxStabilityFrames == 5
MaxFrames == 6

\* at most MaxSpeak texts are handed to speak() and speak_now()
MaxSpeak == 4

\* the clock stops advancing at MaxClock
MaxClock == 2
\* update() timestamps run from 0 to MaxSceneTime, at most MaxStep apart
MaxSceneTime == 3
MaxStep == 2
\* the longest detection list handed to update()
MaxDets == 2
\* the longest a provider's construction (model load) takes, in units of 10 ms
MaxLoadTime == 30
\* the most provider calls left queued in the pipeline's executor
MaxPending == 1

-----------------------------------------------------------------------------
(* PerformanceMonitor  (core/engine.py 106-175)                            *)

\* self.max_samples = 30
max_samples == 30

Last(s) == s[Len(s)]

SeqRange(q) == {q[i] : i \in 1..Len(q)}

\* A non-negative rational num/den, den > 0
Rat(n, d) == <<n, d>>
RatZero == Rat(0, 1)
RatPositive(r) == r[1] > 0 /\ r[2] > 0

\* time.time(): the clock may tick between two reads
ClockTick ==
    /\ clock < MaxClock
    /\ clock' = clock + 1
    /\ UNCHANGED <<frame_times, fps_result, skip_call, sceneVars, pipeVars, rulesVars, busVars, stabVars, ttsVars, appVars, orchVars>>

\* record_frame(): append now, evict the oldest beyond max_samples
record_frame_result(ft, now) ==
    LET appended == Append(ft, now)
    IN  IF Len(appended) > max_samples THEN Tail(appended) ELSE appended

\* get_fps(): 0.0 below two samples, else len/elapsed if elapsed > 0 else 0.0
get_fps_bug_three_samples(ft) ==
    IF Len(ft) < 3 THEN RatZero
    ELSE LET elapsed == Last(ft) - ft[1]
         IN  IF elapsed > 0 THEN Rat(Len(ft), elapsed) ELSE RatZero

get_fps(ft) ==
    IF Len(ft) < 2 THEN RatZero
    ELSE LET elapsed == Last(ft) - ft[1]
         IN  IF elapsed > 0 THEN Rat(Len(ft), elapsed) ELSE RatZero

RecordFrame ==
    /\ frame_times' = record_frame_result(frame_times, clock)
    /\ UNCHANGED <<clock, fps_result, skip_call, sceneVars, pipeVars, rulesVars, busVars, stabVars, ttsVars, appVars, orchVars>>

NoFpsCall == [samples |-> 0, oldest |-> 0, newest |-> 0, value |-> RatZero]

GetFps ==
    /\ fps_result' = [samples |-> Len(frame_times),
                      oldest  |-> IF frame_times = <<>> THEN 0 ELSE frame_times[1],
                      newest  |-> IF frame_times = <<>> THEN 0 ELSE Last(frame_times),
                      value   |-> get_fps(frame_times)]
    /\ UNCHANGED <<clock, frame_times, skip_call, sceneVars, pipeVars, rulesVars, busVars, stabVars, ttsVars, appVars, orchVars>>

\* __init__: frame_skip is 3 on a Raspberry Pi and 1 elsewhere, the CPU
\* threshold is 75 %; neither is written again
cpu_threshold == 75
FrameSkip(is_raspberry_pi) == IF is_raspberry_pi THEN 3 ELSE 1

\* psutil.cpu_percent() readings, in tenths of a percent
CpuReadings == {0, 749, 750, 751, 1000}

should_skip_frame_bug_longer_interval(frame_count, cpu10, frame_skip) ==
    IF cpu10 > 10 * cpu_threshold
    THEN frame_count % (frame_skip * 2 + 1) # 0
    ELSE frame_count % frame_skip # 0

should_skip_frame_bug_no_backpressure(frame_count, cpu10, frame_skip) ==
    frame_count % frame_skip # 0

\* should_skip_frame(frame_count) with the CPU reading cpu10 / 10
should_skip_frame(frame_count, cpu10, frame_skip) ==
    IF cpu10 > 10 * cpu_threshold
    THEN frame_count % (frame_skip * 2) # 0
    ELSE frame_count % frame_skip # 0

NoSkipCall == [called |-> FALSE, frame_count |-> 0, cpu10 |-> 0,
               is_raspberry_pi |-> FALSE, result |-> FALSE]

\* a should_skip_frame() call on the monitor of either platform
ShouldSkipFrame ==
    \E frame_count \in 0..MaxFrameCount, cpu10 \in CpuReadings,
       is_raspberry_pi \in BOOLEAN :
        /\ skip_call' = [called |-> TRUE, frame_count |-> frame_count,
                         cpu10 |-> cpu10, is_raspberry_pi |-> is_raspberry_pi,
                         result |-> should_skip_frame(frame_count, cpu10,
                                        FrameSkip(is_raspberry_pi))]
        /\ UNCHANGED <<clock, frame_times, fps_result, sceneVars, pipeVars,
                       rulesVars, busVars, stabVars, ttsVars, appVars, orchVars>>

InitPerf ==
    /\ clock = 0
    /\ frame_times = <<>>
    /\ fps_result = NoFpsCall
    /\ skip_call = NoSkipCall

NextPerf == ClockTick \/ RecordFrame \/ GetFps

NextSkip == ShouldSkipFrame

-----------------------------------------------------------------------------
(* SceneState  (state/scene_state.py)                                      *)
(*                                                                         *)
(* Bounding boxes are integer pixel rectangles <<x, y, w, h>>; the centre  *)
(* x + w/2 is compared with W/3 and 2W/3 exactly, on 6*cx, 2*W and 4*W.    *)

Labels == {"person", "cell phone", "bottle"}
\* the labels the update() calls of SpecScene detect
SceneLabels == {"person", "cell phone"}

\* a label update() has never seen
Untracked == [tracked |-> FALSE, last_seen |-> 0, bbox |-> <<0, 0, 0, 0>>,
              position |-> "none"]

\* frame widths: one divisible by 3 (W/3 = 200, 2W/3 = 400) and the default 640
FrameWidths == {600, 640}

\* centres at 100.5, 200 and 400
PhoneBoxes == {<<50, 50, 101, 80>>, <<150, 50, 100, 80>>, <<350, 50, 100, 80>>}
PersonBox == <<100, 50, 200, 300>>
BottleBox == <<500, 200, 40, 90>>

Det(label, bbox) == [label |-> label, bbox |-> bbox]

SeqsUpTo(S, n) == UNION {[1..k -> S] : k \in 0..n}

\* detection lists for the zone computation: every box, with and without a person
ZoneDetLists == SeqsUpTo({Det("person", PersonBox)}
                            \cup {Det("cell phone", b) : b \in PhoneBoxes}, MaxDets)

\* detection lists for the human state: a person and one other object
HumanDetLists == SeqsUpTo({Det("person", PersonBox),
                           Det("cell phone", <<150, 50, 100, 80>>)}, MaxDets)

\* keypoint maps: name -> <<x, y>>
KPEmpty == [n \in {} |-> <<0, 0>>]
KPStanding == [NOSE |-> <<320, 150>>,
               LEFT_SHOULDER |-> <<280, 200>>, RIGHT_SHOULDER |-> <<360, 200>>,
               LEFT_HIP |-> <<290, 350>>, RIGHT_HIP |-> <<350, 350>>,
               LEFT_KNEE |-> <<290, 450>>, RIGHT_KNEE |-> <<350, 450>>,
               LEFT_ANKLE |-> <<290, 550>>, RIGHT_ANKLE |-> <<350, 550>>]
KPSitting == [NOSE |-> <<320, 150>>,
              LEFT_SHOULDER |-> <<120, 200>>, RIGHT_SHOULDER |-> <<520, 200>>,
              LEFT_HIP |-> <<290, 350>>, RIGHT_HIP |-> <<350, 350>>,
              LEFT_KNEE |-> <<390, 360>>, RIGHT_KNEE |-> <<450, 360>>,
              LEFT_ANKLE |-> <<390, 460>>, RIGHT_ANKLE |-> <<450, 460>>]
\* dy = 2*dx exactly: neither test of _determine_pose succeeds
KPDiagonal == [LEFT_HIP |-> <<290, 350>>, RIGHT_HIP |-> <<350, 350>>,
               LEFT_KNEE |-> <<340, 450>>, RIGHT_KNEE |-> <<400, 450>>,
               LEFT_ANKLE |-> <<340, 550>>, RIGHT_ANKLE |-> <<400, 550>>]
\* upper body only: no hip, knee or ankle
KPUpperBody == [NOSE |-> <<320, 150>>,
                LEFT_EAR |-> <<140, 140>>, RIGHT_EAR |-> <<500, 140>>]
\* hips and knees but no ankles
KPNoAnkles == [LEFT_HIP |-> <<290, 350>>, RIGHT_HIP |-> <<350, 350>>,
               LEFT_KNEE |-> <<290, 450>>, RIGHT_KNEE |-> <<350, 450>>]

KeypointMaps == {KPStanding, KPSitting, KPDiagonal, KPNoAnkles}

\* the pose_data argument: None, {}, a dict without 'keypoints', or a pose
PoseNone == [kind |-> "None", keypoints |-> KPEmpty]
PoseEmptyDict == [kind |-> "EmptyDict", keypoints |-> KPEmpty]
PoseNoKeypointsKey == [kind |-> "NoKeypointsKey", keypoints |-> KPEmpty]
Pose(kp) == [kind |-> "Pose", keypoints |-> kp]

PoseInputs == {PoseNone, PoseEmptyDict, PoseNoKeypointsKey}
                 \cup {Pose(kp) : kp \in KeypointMaps}

\* Python truthiness of pose_data, and 'keypoints' in pose_data
Truthy(pose) == pose.kind \notin {"None", "EmptyDict"}
HasKeypointsKey(pose) == pose.kind = "Pose"

Abs(n) == IF n < 0 THEN -n ELSE n

\* the zone of a bbox: cx = x + w/2; cx < W/3 left, cx < 2W/3 center, else right
Zone_bug_inclusive(bbox, frame_width) ==
    LET cx2 == 2 * bbox[1] + bbox[3]
    IN  IF 3 * cx2 < 2 * frame_width THEN "left"
        ELSE IF 3 * cx2 <= 4 * frame_width THEN "center"
        ELSE "right"

Zone(bbox, frame_width) ==
    LET cx2 == 2 * bbox[1] + bbox[3]
    IN  IF 3 * cx2 < 2 * frame_width THEN "left"
        ELSE IF 3 * cx2 < 4 * frame_width THEN "center"
        ELSE "right"

\* the loop over detections: a label's entry is overwritten by each sighting
RECURSIVE UpdateObjects_bug_evicts_unseen(_, _, _, _)
UpdateObjects_bug_evicts_unseen(objs, dets, timestamp, frame_width) ==
    IF dets = <<>> THEN objs
    ELSE LET det == Head(dets)
             entry == [tracked |-> TRUE, last_seen |-> timestamp,
                       bbox |-> det.bbox,
                       position |-> Zone(det.bbox, frame_width)]
             kept == [l \in Labels |-> IF l = det.label THEN entry
                                       ELSE IF objs[l].last_seen < timestamp
                                       THEN Untracked ELSE objs[l]]
         IN  UpdateObjects_bug_evicts_unseen(kept, Tail(dets), timestamp,
                                             frame_width)

\* a label's entry is overwritten by each sighting, no entry is ever deleted
RECURSIVE UpdateObjects(_, _, _, _)
UpdateObjects(objs, dets, timestamp, frame_width) ==
    IF dets = <<>> THEN objs
    ELSE LET det == Head(dets)
             entry == [tracked |-> TRUE, last_seen |-> timestamp,
                       bbox |-> det.bbox,
                       position |-> Zone(det.bbox, frame_width)]
         IN  UpdateObjects([objs EXCEPT ![det.label] = entry], Tail(dets),
                           timestamp, frame_width)

PersonDetected(dets) == \E i \in 1..Len(dets) : dets[i].label = "person"

RequiredKeypoints == {"LEFT_HIP", "RIGHT_HIP", "LEFT_KNEE", "RIGHT_KNEE",
                      "LEFT_ANKLE", "RIGHT_ANKLE"}

\* _determine_pose(): hip_y, knee_y, hip_x, knee_x are kept doubled
determine_pose_bug_ankles_optional(keypoints) ==
    IF ~((RequiredKeypoints \ {"LEFT_ANKLE", "RIGHT_ANKLE"})
           \subseteq DOMAIN keypoints) THEN "unknown"
    ELSE LET hip_y2 == keypoints["LEFT_HIP"][2] + keypoints["RIGHT_HIP"][2]
             knee_y2 == keypoints["LEFT_KNEE"][2] + keypoints["RIGHT_KNEE"][2]
             hip_x2 == keypoints["LEFT_HIP"][1] + keypoints["RIGHT_HIP"][1]
             knee_x2 == keypoints["LEFT_KNEE"][1] + keypoints["RIGHT_KNEE"][1]
             dy2 == Abs(knee_y2 - hip_y2)
             dx2 == Abs(knee_x2 - hip_x2)
         IN  IF dy2 > dx2 * 2 THEN "standing"
             ELSE IF 2 * dx2 > dy2 THEN "sitting"
             ELSE "standing"

determine_pose(keypoints) ==
    IF ~(RequiredKeypoints \subseteq DOMAIN keypoints) THEN "unknown"
    ELSE LET hip_y2 == keypoints["LEFT_HIP"][2] + keypoints["RIGHT_HIP"][2]
             knee_y2 == keypoints["LEFT_KNEE"][2] + keypoints["RIGHT_KNEE"][2]
             hip_x2 == keypoints["LEFT_HIP"][1] + keypoints["RIGHT_HIP"][1]
             knee_x2 == keypoints["LEFT_KNEE"][1] + keypoints["RIGHT_KNEE"][1]
             dy2 == Abs(knee_y2 - hip_y2)
             dx2 == Abs(knee_x2 - hip_x2)
         IN  IF dy2 > dx2 * 2 THEN "standing"
             ELSE IF 2 * dx2 > dy2 THEN "sitting"
             ELSE "standing"

\* line 58: pose_data and 'keypoints' in pose_data and person_detected
HumanDetected_bug_either(pose, person_detected) ==
    (Truthy(pose) /\ HasKeypointsKey(pose)) \/ person_detected

HumanDetected(pose, person_detected) ==
    Truthy(pose) /\ HasKeypointsKey(pose) /\ person_detected

\* line 68: new_pose != current_pose and new_pose != 'unknown'
PoseChanged_bug_every_frame(new_pose, current_pose) ==
    new_pose # "unknown"

PoseChanged(new_pose, current_pose) ==
    new_pose # current_pose /\ new_pose # "unknown"

\* part 2 of update(): the human (lines 58-84)
UpdateHuman_bug_identity_kept(hum, dets, pose, timestamp) ==
    IF HumanDetected(pose, PersonDetected(dets))
    THEN LET new_pose == determine_pose(pose.keypoints)
             seen == [hum EXCEPT !.present = TRUE,
                                 !.keypoints = pose.keypoints,
                                 !.last_seen = timestamp]
         IN  IF PoseChanged(new_pose, hum.pose_state)
             THEN [seen EXCEPT !.pose_state = new_pose,
                               !.has_pose_start_time = TRUE,
                               !.pose_start_time = timestamp]
             ELSE IF ~hum.has_pose_start_time
             THEN [seen EXCEPT !.has_pose_start_time = TRUE,
                               !.pose_start_time = timestamp]
             ELSE seen
    ELSE [hum EXCEPT !.present = FALSE,
                     !.pose_state = IF timestamp - hum.last_seen > 1
                                    THEN "unknown" ELSE @]

UpdateHuman(hum, dets, pose, timestamp) ==
    IF HumanDetected(pose, PersonDetected(dets))
    THEN LET new_pose == determine_pose(pose.keypoints)
             seen == [hum EXCEPT !.present = TRUE,
                                 !.keypoints = pose.keypoints,
                                 !.last_seen = timestamp]
         IN  IF PoseChanged(new_pose, hum.pose_state)
             THEN [seen EXCEPT !.pose_state = new_pose,
                               !.has_pose_start_time = TRUE,
                               !.pose_start_time = timestamp]
             ELSE IF ~hum.has_pose_start_time
             THEN [seen EXCEPT !.has_pose_start_time = TRUE,
                               !.pose_start_time = timestamp]
             ELSE seen
    ELSE [hum EXCEPT !.present = FALSE,
                     !.identity = "None",
                     !.pose_state = IF timestamp - hum.last_seen > 1
                                    THEN "unknown" ELSE @]

\* what the latest update() call was given: the labels of its detections and
\* its pose_data (its timestamp is scene_time, its frame_width is width)
NoUpdate == [called |-> FALSE, labels |-> {}, pose |-> PoseNone]

DetLabels(dets) == {dets[i].label : i \in 1..Len(dets)}

\* SceneState.update(detections, pose_data, timestamp, frame_width)
UpdateWith(detLists, poses, widths) ==
    \E dets \in detLists, pose \in poses, step \in 0..MaxStep,
       frame_width \in widths :
        LET timestamp == scene_time + step
        IN  /\ timestamp <= MaxSceneTime
            /\ width' = frame_width
            /\ objects' = UpdateObjects(objects, dets, timestamp, frame_width)
            /\ human' = UpdateHuman(human, dets, pose, timestamp)
            /\ scene_time' = timestamp
            /\ upd' = [called |-> TRUE, labels |-> DetLabels(dets), pose |-> pose]
            /\ UNCHANGED <<perfVars, pipeVars, rulesVars, busVars, stabVars, ttsVars, appVars, orchVars>>

Identities == {"Jay"}

\* the orchestrator's identity sync: scene_state.human['identity'] = identity
SyncIdentity ==
    \E identity \in Identities \cup {"None"} :
        /\ human' = [human EXCEPT !.identity = identity]
        /\ UNCHANGED <<objects, width, scene_time, upd, perfVars, pipeVars, rulesVars, busVars, stabVars, ttsVars, appVars, orchVars>>

InitScene ==
    /\ objects = [l \in Labels |-> Untracked]
    /\ human = [present |-> FALSE, pose_state |-> "unknown",
                keypoints |-> KPEmpty, last_seen |-> 0, identity |-> "None",
                has_pose_start_time |-> FALSE, pose_start_time |-> 0]
    /\ width = 640
    /\ scene_time = 0
    /\ upd = NoUpdate

\* update() as the human-state claims exercise it
Update == UpdateWith(HumanDetLists, PoseInputs, {640})

\* update() as the zone claims exercise it
UpdateZones == UpdateWith(ZoneDetLists, {PoseNone, Pose(KPStanding)}, FrameWidths)

\* update() as the identity claim exercises it: a person or another object
\* or nothing detected, with and without a pose
UpdateIdentity ==
    UpdateWith({<<>>, <<Det("person", PersonBox)>>,
                <<Det("cell phone", <<150, 50, 100, 80>>)>>},
               {PoseNone, PoseEmptyDict, PoseNoKeypointsKey, Pose(KPStanding)},
               {640})

\* update() as the pose classification claim exercises it: a person or
\* nobody detected, with no pose, a pose without leg keypoints, one without
\* ankles, and complete ones
UpdatePose ==
    UpdateWith({<<>>, <<Det("person", PersonBox)>>},
               {PoseNone, Pose(KPUpperBody), Pose(KPNoAnkles), Pose(KPSitting),
                Pose(KPStanding), Pose(KPDiagonal)},
               {640})

NextScene == Update \/ SyncIdentity

NextPose == UpdatePose

NextIdentity == UpdateIdentity \/ SyncIdentity

NextZones == UpdateZones

-----------------------------------------------------------------------------
(* PerceptionPipeline  (core/engine.py 180-344)                            *)
(*                                                                         *)
(* process() is run by one thread (the orchestrator); the provider calls   *)
(* run on the three workers of self.executor.  A call of process() is one  *)
(* action: the providers' behaviour during it (value, exception, overrun)  *)
(* and the time each step blocks are chosen nondeterministically.  Times   *)
(* are in units of 10 ms.  A provider call that finds no free worker stays *)
(* queued for the whole call and so times out in it.                       *)

Channels == {"detections", "pose", "identity"}
\* the order in which process() submits and gathers
ChannelOrder == <<"detections", "pose", "identity">>

\* futures[...].result(timeout=0.1 / 0.1 / 0.01)
DetectionTimeout == 10
PoseTimeout == 10
IdentityTimeout == 1
Timeout(chan) == CASE chan = "detections" -> DetectionTimeout
                   [] chan = "pose" -> PoseTimeout
                   [] chan = "identity" -> IdentityTimeout

\* ThreadPoolExecutor(max_workers=3)
PoolWorkers == 3

\* the values a provider returns (the cache starts with [], None, None)
ChannelValues(chan) == CASE chan = "detections" -> {"[]", "dets1"}
                         [] chan = "pose" -> {"None", "pose1"}
                         [] chan = "identity" -> {"None", "Jay"}

RECURSIVE SumOver(_, _)
SumOver(S, f) ==
    IF S = {} THEN 0
    ELSE LET x == CHOOSE y \in S : TRUE IN f[x] + SumOver(S \ {x}, f)

SeqToSet(q) == {q[i] : i \in 1..Len(q)}

\* what a provider call does while process() waits for it:
\*   done: returns value just before the timeout;  raise: raises an Exception
\*   at once;  timeout: has not returned when the timeout expires
Behaviours(chan) ==
    [kind : {"done"}, value : ChannelValues(chan), wait : {Timeout(chan) - 1}]
      \cup [kind : {"raise"}, value : {"-"}, wait : {0}]
      \cup [kind : {"timeout"}, value : {"-"}, wait : {Timeout(chan)}]

NoCall == [kind |-> "none", value |-> "-", wait |-> 0]

\* lines 258-273: lazy construction; face recognition may be unavailable
\* (its constructor's exception is caught and _face_rec set to False)
ConstructedBy(prov, flags) ==
    {c \in Channels :
        /\ flags[c]
        /\ prov[c] = "None"}

ProvidersAfter(prov, flags, face_ok) ==
    [c \in Channels |->
        IF c \in ConstructedBy(prov, flags)
        THEN (IF c = "identity" /\ ~face_ok THEN "False" ELSE "Ready")
        ELSE prov[c]]

Futures_bug_ignores_flags(prov_after, flags) ==
    {c \in Channels : prov_after[c] = "Ready"}

\* the channels process() submits a provider call for
Futures(prov_after, flags) ==
    {c \in Channels : flags[c] /\ prov_after[c] = "Ready"}

\* executor.submit(): a call starts at once on a free worker, and is queued
\* when the three workers are busy or older calls are queued
RECURSIVE SubmitAll(_, _, _)
SubmitAll(order, futs, pool) ==
    IF order = <<>> THEN pool
    ELSE LET c == Head(order)
             next ==
                 IF c \notin futs THEN pool
                 ELSE IF pool.pending = <<>> /\ Len(pool.running) < PoolWorkers
                 THEN [pool EXCEPT !.running = Append(@, c),
                                   !.started = @ \cup {c}]
                 ELSE [pool EXCEPT !.pending = Append(@, c)]
         IN  SubmitAll(Tail(order), futs, next)

\* lines 284-303, one channel: result(timeout) stores the value in results and
\* in the cache; concurrent.futures.TimeoutError is passed over; any other
\* exception leaves the try block
GatherOne_bug_clear_on_failure(g, chan, b) ==
    CASE b.kind = "done" ->
            [g EXCEPT !.results[chan] = b.value, !.cache[chan] = b.value,
                      !.waited = @ + b.wait]
      [] b.kind = "timeout" ->
            [g EXCEPT !.results[chan] = "None", !.cache[chan] = "None",
                      !.waited = @ + b.wait]
      [] b.kind = "raise" ->
            [g EXCEPT !.results[chan] = "None",
                      !.waited = @ + b.wait, !.exc = "Exception"]

GatherOne_bug_wait_forever(g, chan, b) ==
    CASE b.kind = "done" ->
            [g EXCEPT !.results[chan] = b.value, !.cache[chan] = b.value,
                      !.waited = @ + b.wait]
      [] b.kind = "timeout" -> [g EXCEPT !.waited = @ + 10 * b.wait]
      [] b.kind = "raise" -> [g EXCEPT !.waited = @ + b.wait, !.exc = "Exception"]

GatherOne(g, chan, b) ==
    CASE b.kind = "done" ->
            [g EXCEPT !.results[chan] = b.value, !.cache[chan] = b.value,
                      !.waited = @ + b.wait]
      [] b.kind = "timeout" -> [g EXCEPT !.waited = @ + b.wait]
      [] b.kind = "raise" -> [g EXCEPT !.waited = @ + b.wait, !.exc = "Exception"]

\* lines 282-307: the channels in order, until an exception leaves the block
RECURSIVE GatherAll(_, _, _, _)
GatherAll(order, futs, beh, g) ==
    IF order = <<>> \/ g.exc # "none" THEN g
    ELSE LET c == Head(order)
         IN  GatherAll(Tail(order), futs, beh,
                       IF c \in futs
                       THEN [GatherOne(g, c, beh[c]) EXCEPT !.reached = @ \cup {c}]
                       ELSE g)

\* line 305: except Exception
OuterHandler_bug_not_caught(exc) == exc

OuterHandler(exc) == IF exc = "Exception" THEN "none" ELSE exc

\* _async_face_rec(): recognition runs only if self._last_pose is set when the
\* worker reads it; otherwise the call returns None at once (and can only be
\* late because its worker was)
FaceBehaviourOk(b, pose_read) ==
    pose_read = "None" =>
        \/ b.kind = "timeout"
        \/ (b.kind = "done" /\ b.value = "None")

\* the behaviours open to the provider call of chan in one process() call:
\* a queued call cannot return before the timeout
BehavioursIn(chan, futs, started) ==
    IF chan \notin futs THEN {NoCall}
    ELSE IF chan \notin started
    THEN {b \in Behaviours(chan) : b.kind = "timeout"}
    ELSE Behaviours(chan)

\* the pose _async_face_rec() can find in self._last_pose: the one cached
\* before this call ("cached"), or, when the worker reads it only after
\* process() has gathered this frame's pose, that one ("fresh"); "none" when
\* no recognition runs (no call started, or no pose to read)
FacePoses(bi, bp, started, cached_pose) ==
    IF "identity" \notin started THEN {"none"}
    ELSE {IF cached_pose = "None" THEN "none" ELSE "cached" :
              r \in {x \in {"before"} : FaceBehaviourOk(bi, cached_pose)}}
         \cup {IF bp.value = "None" THEN "none" ELSE "fresh" :
                  r \in {x \in {"after"} : /\ bp.kind = "done"
                                           /\ FaceBehaviourOk(bi, bp.value)}}

NoLate == [chan |-> "none", value |-> "-"]

\* the latest process() call.  face_pose, provider (what each provider call
\* did) and late (the latest provider call that returned after its
\* timeout) are kept by the runs that record them only.
NoProcess == [called |-> FALSE,
              flags |-> [c \in Channels |-> FALSE],
              constructed |-> {},
              outcome |-> [c \in Channels |-> "none"],
              cache_before |-> [c \in Channels |-> "None"],
              results |-> [c \in Channels |-> "None"],
              waited |-> 0,
              raised |-> FALSE,
              face_pose |-> "none",
              provider |-> [c \in Channels |-> NoCall],
              late |-> NoLate]

\* a provider call's outcome in the process() call that submitted it
OutcomeOf(c, futs, g, beh) ==
    IF c \notin futs THEN "none"
    ELSE IF c \notin g.reached THEN "skipped"
    ELSE beh[c].kind

\* process(frame, run_detection, run_pose, run_face)
ProcessWith(flagSets, recording) ==
    \E flags \in flagSets, face_ok \in BOOLEAN,
       load \in {1, MaxLoadTime} :
      LET constructed == ConstructedBy(providers, flags)
          prov_after == ProvidersAfter(providers, flags, face_ok)
          futs == Futures(prov_after, flags)
          pool0 == [running |-> pool_running, pending |-> pool_pending,
                    started |-> {}]
          pool1 == SubmitAll(ChannelOrder, futs, pool0)
          load_time == IF constructed = {} THEN 0
                       ELSE load * Cardinality(constructed)
      IN  /\ face_ok \/ "identity" \in constructed
          /\ (constructed = {}) => load = 1
          /\ Len(pool1.pending) <= MaxPending
          /\ \E bd \in BehavioursIn("detections", futs, pool1.started),
                bp \in BehavioursIn("pose", futs, pool1.started),
                bi \in BehavioursIn("identity", futs, pool1.started) :
              LET beh == [c \in Channels |->
                            CASE c = "detections" -> bd
                              [] c = "pose" -> bp
                              [] c = "identity" -> bi]
                  g0 == [results |-> cache, cache |-> cache,
                         waited |-> load_time, exc |-> "none", reached |-> {}]
                  g == GatherAll(ChannelOrder, futs, beh, g0)
                  escaped == OuterHandler(g.exc)
                  \* calls that returned or raised have left their worker,
                  \* whether or not process() reached their result()
                  finished == {c \in pool1.started : beh[c].kind # "timeout"}
                  face_poses == FacePoses(bi, bp, pool1.started, cache["pose"])
              IN  /\ face_poses # {}
                  /\ cache' = g.cache
                  /\ providers' = prov_after
                  /\ pool_running' =
                        SelectSeq(pool1.running, LAMBDA c : c \notin finished)
                  /\ pool_pending' = pool1.pending
                  /\ \E face_pose \in (IF recording THEN face_poses
                                        ELSE {"none"}) :
                      proc' = [called |-> TRUE,
                               flags |-> flags,
                               constructed |-> constructed,
                               outcome |-> [c \in Channels |->
                                              OutcomeOf(c, futs, g, beh)],
                               cache_before |-> cache,
                               results |-> g.results,
                               waited |-> g.waited,
                               raised |-> escaped # "none",
                               face_pose |-> face_pose,
                               provider |-> IF recording THEN beh
                                            ELSE NoProcess.provider,
                               late |-> NoLate]
      /\ UNCHANGED <<perfVars, sceneVars, rulesVars, busVars, stabVars, ttsVars, appVars, orchVars>>

RemoveAt(q, i) == SubSeq(q, 1, i - 1) \o SubSeq(q, i + 1, Len(q))

\* a provider call that overran its timeout returns value later: the Future
\* takes it, nothing reads the Future and nothing writes the cache; the
\* worker takes the oldest queued call
LateReturnWith(recording) ==
    \E i \in 1..Len(pool_running) :
      \E value \in (IF recording THEN ChannelValues(pool_running[i])
                     ELSE {"-"}) :
        /\ IF pool_pending = <<>>
           THEN /\ pool_running' = RemoveAt(pool_running, i)
                /\ pool_pending' = pool_pending
           ELSE /\ pool_running' = Append(RemoveAt(pool_running, i),
                                          Head(pool_pending))
                /\ pool_pending' = Tail(pool_pending)
        /\ proc' = IF recording
                   THEN [proc EXCEPT !.late = [chan |-> pool_running[i],
                                               value |-> value]]
                   ELSE proc
        /\ UNCHANGED <<cache, providers, perfVars, sceneVars, rulesVars, busVars, stabVars, ttsVars, appVars, orchVars>>

\* warmup(frame): constructs the detector and the pose estimator and runs each
\* once, synchronously, discarding the results
Warmup ==
    /\ providers' = [providers EXCEPT !["detections"] = "Ready",
                                      !["pose"] = "Ready"]
    /\ UNCHANGED <<cache, pool_running, pool_pending, proc, perfVars, sceneVars, rulesVars, busVars, stabVars, ttsVars, appVars, orchVars>>

InitPipe ==
    /\ cache = [c \in Channels |-> IF c = "detections" THEN "[]" ELSE "None"]
    /\ providers = [c \in Channels |-> "None"]
    /\ pool_running = <<>>
    /\ pool_pending = <<>>
    /\ proc = NoProcess

Process == ProcessWith([Channels -> BOOLEAN], FALSE)

LateReturn == LateReturnWith(FALSE)

NextPipe == Process \/ LateReturn \/ Warmup

\* process() calls with recognition requested, with and without a pose
\* request, keeping what each provider call did
TraceFlags == {[c \in Channels |-> TRUE],
               [c \in Channels |-> c # "pose"]}

ProcessTrace == ProcessWith(TraceFlags, TRUE)

LateReturnTrace == LateReturnWith(TRUE)

NextPipeTrace == ProcessTrace \/ LateReturnTrace

\* process() calls of a pipeline whose warmup() has returned
ProcessWarmed ==
    /\ providers["detections"] = "Ready"
    /\ providers["pose"] = "Ready"
    /\ Process

NextWarm == Warmup \/ ProcessWarmed \/ LateReturn

-----------------------------------------------------------------------------
(* RulesEngine  (reasoning/rules.py)                                       *)
(*                                                                         *)
(* Timestamps are whole seconds.  An event of check_rules() is a record   *)
(* <kind, arg>; the list it returns is modelled as the set of its events  *)
(* (the order of the labels inside one category is that of a Python set). *)

\* the RulesEngine(config) of the cooldown runs: every reminder and cooldown
\* configured to 30 s (the default of proximity_cooldown)
CooldownConfig ==
    [sitting_reminder |-> 30, standing_reminder |-> 30,
     focus_cooldown |-> 30, proximity_cooldown |-> 30, hydration_cooldown |-> 30,
     object_visibility_timeout |-> 1, greeting_reset_time |-> 300,
     enable_hydration |-> TRUE, enable_posture |-> TRUE,
     enable_proximity |-> TRUE, enable_greetings |-> TRUE]

\* the RulesEngine(config) of the object-event runs: every timing short
ShortConfig ==
    [sitting_reminder |-> 2, standing_reminder |-> 3,
     focus_cooldown |-> 2, proximity_cooldown |-> 3, hydration_cooldown |-> 4,
     object_visibility_timeout |-> 2, greeting_reset_time |-> 6,
     enable_hydration |-> TRUE, enable_posture |-> TRUE,
     enable_proximity |-> TRUE, enable_greetings |-> TRUE]

\* the test configuration of rules.py (sitting 60, hydration 30, focus 5),
\* the other timings at their defaults, the visibility timeout at 1 s
TestConfig ==
    [sitting_reminder |-> 60, standing_reminder |-> 1800,
     focus_cooldown |-> 5, proximity_cooldown |-> 30, hydration_cooldown |-> 30,
     object_visibility_timeout |-> 1, greeting_reset_time |-> 300,
     enable_hydration |-> TRUE, enable_posture |-> TRUE,
     enable_proximity |-> TRUE, enable_greetings |-> TRUE]

\* proximity_threshold = 0.55 = 11/20
ProximityThresholdNum == 11
ProximityThresholdDen == 20

\* the timings check_rules() hard-codes
PostureCooldown == 60
DistractionVisibility == 1
BottleVisibility == 2
BottleInteractionGap == 10
GreetingGrace == 5

Ev(kind, arg) == [kind |-> kind, arg |-> arg]

Quiet(r) == [rules |-> r, events |-> {}]

\* the labels with timestamp - last_seen < window
VisibleLabels(objs, timestamp, window) ==
    {l \in Labels : objs[l].tracked /\ timestamp - objs[l].last_seen < window}

\* RulesEngine.__init__
InitRulesEngine ==
    [prev_objects |-> {}, prev_pose_state |-> "unknown", last_check_time |-> 0,
     last_proximity_alert |-> 0, last_focus_alert |-> 0,
     last_hydration_alert |-> 0, last_posture_alert |-> 0,
     last_greeted_name |-> "None", last_greeted_time |-> 0,
     last_bottle_seen |-> 0, bottle_interactions |-> 0]

check_objects_bug_every_sighting(cfg, r, scene, timestamp) ==
    LET current_visible ==
            VisibleLabels(scene.objects, timestamp, cfg.object_visibility_timeout)
    IN  [rules |-> [r EXCEPT !.prev_objects = current_visible],
         events |-> {Ev("appeared", l) : l \in current_visible}
                      \cup {Ev("disappeared", l) :
                                l \in r.prev_objects \ current_visible}]

check_objects_bug_disappeared_repeats(cfg, r, scene, timestamp) ==
    LET current_visible ==
            VisibleLabels(scene.objects, timestamp, cfg.object_visibility_timeout)
    IN  [rules |-> [r EXCEPT !.prev_objects = current_visible],
         events |-> {Ev("appeared", l) : l \in current_visible \ r.prev_objects}
                      \cup {Ev("disappeared", l) :
                                l \in {x \in Labels : scene.objects[x].tracked}
                                         \ current_visible}]

check_objects(cfg, r, scene, timestamp) ==
    LET current_visible ==
            VisibleLabels(scene.objects, timestamp, cfg.object_visibility_timeout)
    IN  [rules |-> [r EXCEPT !.prev_objects = current_visible],
         events |-> {Ev("appeared", l) : l \in current_visible \ r.prev_objects}
                      \cup {Ev("disappeared", l) :
                                l \in r.prev_objects \ current_visible}]

check_posture_bug_dwell_ignored(cfg, r, scene, timestamp) ==
    IF ~scene.human.present
    THEN Quiet([r EXCEPT !.prev_pose_state = "unknown"])
    ELSE LET current_pose == scene.human.pose_state
             r1 == IF current_pose # r.prev_pose_state
                   THEN [r EXCEPT
                           !.last_posture_alert =
                               IF r.prev_pose_state # "unknown"
                                    /\ current_pose # "unknown"
                               THEN timestamp ELSE @,
                           !.prev_pose_state = current_pose]
                   ELSE r
             pose_start == IF scene.human.has_pose_start_time
                           THEN scene.human.pose_start_time ELSE timestamp
             duration == timestamp - pose_start
         IN  IF timestamp - r1.last_posture_alert < PostureCooldown
             THEN Quiet(r1)
             ELSE IF current_pose = "sitting"
             THEN [rules |-> [r1 EXCEPT !.last_posture_alert = timestamp],
                   events |-> {Ev("posture", "sitting")}]
             ELSE IF current_pose = "standing"
             THEN [rules |-> [r1 EXCEPT !.last_posture_alert = timestamp],
                   events |-> {Ev("posture", "standing")}]
             ELSE Quiet(r1)

check_posture(cfg, r, scene, timestamp) ==
    IF ~scene.human.present
    THEN Quiet([r EXCEPT !.prev_pose_state = "unknown"])
    ELSE LET current_pose == scene.human.pose_state
             r1 == IF current_pose # r.prev_pose_state
                   THEN [r EXCEPT
                           !.last_posture_alert =
                               IF r.prev_pose_state # "unknown"
                                    /\ current_pose # "unknown"
                               THEN timestamp ELSE @,
                           !.prev_pose_state = current_pose]
                   ELSE r
             pose_start == IF scene.human.has_pose_start_time
                           THEN scene.human.pose_start_time ELSE timestamp
             duration == timestamp - pose_start
         IN  IF timestamp - r1.last_posture_alert < PostureCooldown
             THEN Quiet(r1)
             ELSE IF current_pose = "sitting" /\ duration > cfg.sitting_reminder
             THEN [rules |-> [r1 EXCEPT !.last_posture_alert = timestamp],
                   events |-> {Ev("posture", "sitting")}]
             ELSE IF current_pose = "standing"
                       /\ duration > cfg.standing_reminder
             THEN [rules |-> [r1 EXCEPT !.last_posture_alert = timestamp],
                   events |-> {Ev("posture", "standing")}]
             ELSE Quiet(r1)

check_distraction_bug_no_cooldown(cfg, r, scene, timestamp) ==
    IF scene.focus_mode
         /\ "cell phone" \in VisibleLabels(scene.objects, timestamp,
                                           DistractionVisibility)
    THEN [rules |-> [r EXCEPT !.last_focus_alert = timestamp],
          events |-> {Ev("focus", "cell phone")}]
    ELSE Quiet(r)

check_distraction(cfg, r, scene, timestamp) ==
    IF ~scene.focus_mode THEN Quiet(r)
    ELSE IF "cell phone" \in VisibleLabels(scene.objects, timestamp,
                                           DistractionVisibility)
              /\ timestamp - r.last_focus_alert > cfg.focus_cooldown
    THEN [rules |-> [r EXCEPT !.last_focus_alert = timestamp],
          events |-> {Ev("focus", "cell phone")}]
    ELSE Quiet(r)

\* the labels whose lower-cased name contains 'bottle'
BottleLabels == {"bottle"}

check_hydration(cfg, r, scene, timestamp) ==
    LET bottle_visible ==
            BottleLabels \cap VisibleLabels(scene.objects, timestamp,
                                            BottleVisibility) # {}
        r1 == IF bottle_visible
              THEN [r EXCEPT
                      !.bottle_interactions =
                          IF timestamp - r.last_bottle_seen > BottleInteractionGap
                          THEN @ + 1 ELSE @,
                      !.last_bottle_seen = timestamp]
              ELSE r
        time_since_bottle == IF r1.last_bottle_seen > 0
                             THEN timestamp - r1.last_bottle_seen ELSE 0
    IN  IF /\ scene.human.present
           /\ ~bottle_visible
           /\ r1.last_bottle_seen > 0
           /\ time_since_bottle > cfg.hydration_cooldown
           /\ timestamp - r1.last_hydration_alert > cfg.hydration_cooldown
        THEN [rules |-> [r1 EXCEPT !.last_hydration_alert = timestamp],
              events |-> {Ev("hydration", "water")}]
        ELSE Quiet(r1)

DistSq(p, q) == (p[1] - q[1]) * (p[1] - q[1]) + (p[2] - q[2]) * (p[2] - q[2])

\* proximity_score > proximity_threshold, on squares:
\*   dist / width > 11/20          <=>  400 dist^2 > 121 width^2
\*   (dist / width) * 2.5 > 11/20  <=>  2500 dist^2 > 121 width^2
TooClose(kp, w) ==
    LET n2 == ProximityThresholdNum * ProximityThresholdNum
        d2 == ProximityThresholdDen * ProximityThresholdDen
    IN  IF {"LEFT_SHOULDER", "RIGHT_SHOULDER"} \subseteq DOMAIN kp
        THEN d2 * DistSq(kp["LEFT_SHOULDER"], kp["RIGHT_SHOULDER"]) > n2 * w * w
        ELSE IF {"LEFT_EAR", "RIGHT_EAR"} \subseteq DOMAIN kp
        THEN 25 * d2 * DistSq(kp["LEFT_EAR"], kp["RIGHT_EAR"]) > 4 * n2 * w * w
        ELSE FALSE

check_proximity(cfg, r, scene, timestamp) ==
    IF ~scene.human.present THEN Quiet(r)
    ELSE IF TooClose(scene.human.keypoints, scene.width)
              /\ timestamp - r.last_proximity_alert > cfg.proximity_cooldown
    THEN [rules |-> [r EXCEPT !.last_proximity_alert = timestamp],
          events |-> {Ev("proximity", "screen")}]
    ELSE Quiet(r)

check_greeting(cfg, r, scene, timestamp) ==
    LET identity == scene.human.identity
    IN  IF identity # "None"
        THEN IF identity # r.last_greeted_name
             THEN [rules |-> [r EXCEPT !.last_greeted_name = identity,
                                       !.last_greeted_time = timestamp],
                   events |-> {Ev("hello", identity)}]
             ELSE IF timestamp - r.last_greeted_time > cfg.greeting_reset_time
                       /\ ~scene.human.present
             THEN [rules |-> [r EXCEPT !.last_greeted_time = timestamp],
                   events |-> {Ev("welcome back", identity)}]
             ELSE Quiet(r)
        ELSE IF ~scene.human.present
                  /\ timestamp - scene.human.last_seen > GreetingGrace
        THEN Quiet([r EXCEPT !.last_greeted_name = "None"])
        ELSE Quiet(r)

\* the exception _check_proximity() raises on scene, "None" when it returns:
\* a keypoint is subscripted only under its 'in' test, and dist / width
\* divides by the frame width
check_proximity_raises_bug_unguarded(scene) ==
    LET kp == scene.human.keypoints
    IN  IF ~scene.human.present THEN "None"
        ELSE IF ~({"LEFT_SHOULDER", "RIGHT_SHOULDER"} \subseteq DOMAIN kp)
        THEN "KeyError"
        ELSE IF scene.width = 0 THEN "ZeroDivisionError"
        ELSE "None"

check_proximity_raises(scene) ==
    LET kp == scene.human.keypoints
    IN  IF ~scene.human.present THEN "None"
        ELSE IF /\ \/ {"LEFT_SHOULDER", "RIGHT_SHOULDER"} \subseteq DOMAIN kp
                   \/ {"LEFT_EAR", "RIGHT_EAR"} \subseteq DOMAIN kp
                /\ scene.width = 0
        THEN "ZeroDivisionError"
        ELSE "None"

\* check_rules(): the six checks in their fixed order.  The other five
\* checks read only keys that __init__ and update() always write
\* (present, pose_state, last_seen) or read with .get() (pose_start_time,
\* identity, last_seen), so _check_proximity() is the one that can raise;
\* an exception leaves the engine as the checks before it left it.
check_rules(cfg, r, scene, timestamp) ==
    LET c1 == check_objects(cfg, r, scene, timestamp)
        c2 == IF cfg.enable_posture
              THEN check_posture(cfg, c1.rules, scene, timestamp)
              ELSE Quiet(c1.rules)
        c3 == check_distraction(cfg, c2.rules, scene, timestamp)
        c4 == IF cfg.enable_hydration
              THEN check_hydration(cfg, c3.rules, scene, timestamp)
              ELSE Quiet(c3.rules)
        c5 == IF cfg.enable_proximity
              THEN check_proximity(cfg, c4.rules, scene, timestamp)
              ELSE Quiet(c4.rules)
        c6 == IF cfg.enable_greetings
              THEN check_greeting(cfg, c5.rules, scene, timestamp)
              ELSE Quiet(c5.rules)
        exc == IF cfg.enable_proximity THEN check_proximity_raises(scene)
               ELSE "None"
    IN  IF exc # "None"
        THEN [rules |-> c4.rules, events |-> {}, raised |-> exc]
        ELSE [rules |-> [c6.rules EXCEPT !.last_check_time = timestamp],
              events |-> c1.events \cup c2.events \cup c3.events \cup c4.events
                           \cup c5.events \cup c6.events,
              raised |-> "None"]

\* the cooldown-gated categories and their firing times so far
Categories == {"posture", "focus", "hydration", "proximity"}
NeverFired == [prev |-> -1, last |-> -1]

Fires(evs, cat) == \E e \in evs : e.kind = cat

\* the "TTS:" events of one check_rules() call in the order of its list: the
\* checks append in the order posture, distraction, hydration, proximity,
\* greeting, each at most one event
TtsKinds == <<"posture", "focus", "hydration", "proximity", "hello",
              "welcome back">>

\* the throttle of _update_state(): 5.0 seconds since last_tts_time
TtsThrottle == 5

speak_event_bug_no_throttle(sp, e, now) ==
    [sp EXCEPT !.last_tts_time = now,
               !.spoken = Append(@, [t |-> now, text |-> e])]

\* _update_state(): one round of the loop over events for a "TTS:" event: it
\* is handed to speak() and last_tts_time is set, or it is dropped
speak_event(sp, e, now) ==
    IF now - sp.last_tts_time > TtsThrottle
    THEN [sp EXCEPT !.last_tts_time = now,
                    !.spoken = Append(@, [t |-> now, text |-> e])]
    ELSE [sp EXCEPT !.discarded = Append(@, [t |-> now, text |-> e])]

RECURSIVE SpeakFrom(_, _, _, _)
SpeakFrom(sp, evs, now, i) ==
    IF i > Len(TtsKinds) THEN sp
    ELSE LET hit == {e \in evs : e.kind = TtsKinds[i]}
         IN  IF hit = {} THEN SpeakFrom(sp, evs, now, i + 1)
             ELSE SpeakFrom(speak_event(sp, CHOOSE e \in hit : TRUE, now),
                            evs, now, i + 1)

\* _update_state(): the loop over the events of check_rules()
speak_events(sp, evs, now) == SpeakFrom(sp, evs, now, 1)

\* _update_state(): scene_state.update(), the identity sync, check_rules()
\* with one timestamp = time.time() and the loop that speaks its events; the
\* record of the spoken and dropped events is kept when speaking is set
FrameSpeech(cfg, detLists, poses, ids, steps, horizon, tracing, speaking) ==
    \E dets \in detLists, pose \in poses, identity \in ids,
       step \in steps :
        LET timestamp == scene_time + step
            frame_width == 640
            objs == UpdateObjects(objects, dets, timestamp, frame_width)
            hum == [UpdateHuman(human, dets, pose, timestamp)
                        EXCEPT !.identity = identity]
            scene == [objects |-> objs, human |-> hum,
                      focus_mode |-> focus_mode, width |-> frame_width]
            res == check_rules(cfg, rules, scene, timestamp)
        IN  /\ timestamp <= horizon
            /\ objects' = objs
            /\ human' = hum
            /\ width' = frame_width
            /\ scene_time' = timestamp
            /\ upd' = [called |-> TRUE, labels |-> DetLabels(dets), pose |-> pose]
            /\ rules' = res.rules
            /\ events' = res.events
            /\ raised' = res.raised
            /\ fired' = [cat \in Categories |->
                            IF Fires(res.events, cat)
                            THEN [prev |-> fired[cat].last, last |-> timestamp]
                            ELSE fired[cat]]
            /\ trace' = IF tracing
                        THEN Append(trace, [t |-> timestamp,
                                            seen |-> DetLabels(dets),
                                            present |-> hum.present,
                                            pose_state |-> hum.pose_state,
                                            events |-> res.events])
                        ELSE trace
            /\ speech' = IF speaking
                         THEN speak_events(speech, res.events, timestamp)
                         ELSE speech
            /\ UNCHANGED <<focus_mode, toggle, perfVars, pipeVars, busVars,
                           stabVars, ttsVars, appVars>>

FrameWith(cfg, detLists, poses, identities, steps, horizon, tracing) ==
    FrameSpeech(cfg, detLists, poses, identities, steps, horizon, tracing,
                FALSE)

\* _on_focus_change(): scene_state.focus_mode = enabled
OnFocusChange ==
    \E enabled \in BOOLEAN :
        /\ focus_mode' = enabled
        /\ UNCHANGED <<rules, events, fired, trace, raised, sceneVars, perfVars, pipeVars,
                     busVars, stabVars, ttsVars, appVars, orchVars>>

PersonDet == Det("person", PersonBox)
PhoneDet == Det("cell phone", <<150, 50, 100, 80>>)
BottleDet == Det("bottle", BottleBox)

\* the frames of the cooldown runs: a person with a phone in view, sitting
\* close to the screen or standing back, a bottle in view on some frames
RuleSteps == {29, 30, 31}
RulesFrame ==
    FrameWith(CooldownConfig,
              {<<PersonDet, PhoneDet>>, <<PersonDet, PhoneDet, BottleDet>>},
              {Pose(KPSitting), Pose(KPStanding)}, {"None"},
              RuleSteps, MaxRulesTime, FALSE)

\* the frames of the object-event runs: a phone comes and goes
ObjectsFrame ==
    FrameWith(ShortConfig, {<<>>, <<PhoneDet>>}, {PoseNone}, {"None"},
              1..MaxObjectStep, MaxObjectsTime, TRUE)

\* the hydration scenario: a bottle and a person on the frame at t = 0, then
\* the person alone on every frame up to t = 40
HydrationScenarioEnd == 40
HydrationFirstFrame ==
    /\ ~upd.called
    /\ FrameWith(TestConfig, {<<PersonDet, BottleDet>>},
                 {Pose(KPSitting), Pose(KPStanding)}, {"None"},
                 {0}, HydrationScenarioEnd, FALSE)
HydrationLaterFrame ==
    /\ upd.called
    /\ FrameWith(TestConfig, {<<PersonDet>>},
                 {Pose(KPSitting), Pose(KPStanding)}, {"None"},
                 1..MaxStep, HydrationScenarioEnd, FALSE)

\* a left shoulder alone: neither pair of _check_proximity() is complete
KPLeftShoulderOnly == [NOSE |-> <<320, 150>>, LEFT_SHOULDER |-> <<280, 200>>]

\* the frames of the robustness runs: nobody, a person, a person with a
\* phone; no pose, an empty, a partial and a full keypoint map; with and
\* without an identity
RobustFrame ==
    FrameWith(ShortConfig,
              {<<>>, <<PersonDet>>, <<PersonDet, PhoneDet>>},
              {PoseNone, Pose(KPEmpty), Pose(KPLeftShoulderOnly),
               Pose(KPUpperBody), Pose(KPSitting)},
              Identities \cup {"None"}, 1..MaxStep, MaxRobustTime, FALSE)

InitRules ==
    /\ rules = InitRulesEngine
    /\ focus_mode = FALSE
    /\ events = {}
    /\ fired = [cat \in Categories |-> NeverFired]
    /\ trace = <<>>
    /\ raised = "None"

\* the frames of the greeting runs: somebody or nobody detected, the
\* pipeline reporting a name or none, ticks one second or more than
\* greeting_reset_time apart
GreetSteps == {1, 7}
GreetingFrame ==
    FrameWith(ShortConfig, {<<>>, <<PersonDet>>}, {PoseNone, Pose(KPSitting)},
              Identities \cup {"None"}, GreetSteps, MaxGreetTime, FALSE)

\* the frames of the posture runs: a person detected on every frame, with no
\* pose, sitting or standing, ticks a second or a minute apart
PostureSteps == {1, 60}
PostureFrame ==
    /\ Len(trace) < MaxPostureFrames
    /\ FrameWith(ShortConfig, {<<PersonDet>>},
                 {PoseNone, Pose(KPSitting), Pose(KPStanding)}, {"None"},
                 PostureSteps, MaxPostureTime, TRUE)

NextRules == RulesFrame \/ OnFocusChange

NextPosture == PostureFrame

\* the frames of the speech runs: a person sitting close to the screen with a
\* phone in view, a bottle on some frames, ticks one, three or six seconds
\* apart, the rules on short cooldowns
SpeechSteps == {1, 3, 6}
SpeechFrame ==
    /\ Len(trace) < MaxSpeechFrames
    /\ FrameSpeech(ShortConfig,
                   {<<PersonDet, PhoneDet>>, <<PersonDet, PhoneDet, BottleDet>>},
                   {Pose(KPSitting)}, {"None"}, SpeechSteps, MaxSpeechTime,
                   TRUE, TRUE)

NextSpeech == SpeechFrame \/ OnFocusChange

NextGreeting == GreetingFrame

NextObjects == ObjectsFrame

NextRobust == RobustFrame \/ OnFocusChange

NextHydration == HydrationFirstFrame \/ HydrationLaterFrame

-----------------------------------------------------------------------------
(* EventBus  (core/engine.py 46-103)                                       *)
(*                                                                         *)
(* The queue is a queue.PriorityQueue of tuples (priority, time.time(),    *)
(* event): a binary heap kept by heapq.heappush / heapq.heappop, which     *)
(* compare tuples with <.  Event is a dataclass with eq and without order: *)
(* two tuples that tie on priority and time compare their events, which    *)
(* are equal (the tuples are equal, < is false) or raise TypeError.        *)

EventTypes == {"FOCUS_MODE_CHANGED", "VOICE_COMMAND"}
\* the callbacks a type is given: MemoApp's handlers and one that raises
HandlersOf(type) ==
    IF type = "FOCUS_MODE_CHANGED" THEN {"on_focus_change", "cb_raises"}
    ELSE {"on_voice_command"}
\* the callbacks of the blocking runs: one of them never returns
BlockingHandlersOf(type) ==
    IF type = "FOCUS_MODE_CHANGED" THEN {"on_focus_change", "cb_blocks"}
    ELSE {}
Callbacks == UNION {HandlersOf(type) \cup BlockingHandlersOf(type) :
                        type \in EventTypes}
\* publish(event, priority): an urgent priority and the default
Priorities == {1, 5}
BusPoolWorkers == 10

\* a < b on queue entries: "true", "false" or "error" (TypeError)
Cmp(a, b) ==
    IF a.prio # b.prio THEN (IF a.prio < b.prio THEN "true" ELSE "false")
    ELSE IF a.time # b.time THEN (IF a.time < b.time THEN "true" ELSE "false")
    ELSE IF a.event = b.event THEN "false"
    ELSE "error"

Swap(h, i, j) == [h EXCEPT ![i] = h[j], ![j] = h[i]]

\* heapq's _siftdown: positions are 0-based, h[pos + 1] is heap[pos]
RECURSIVE siftdown(_, _, _)
siftdown(h, startpos, pos) ==
    IF pos > startpos
    THEN LET parentpos == (pos - 1) \div 2
             c == Cmp(h[pos + 1], h[parentpos + 1])
         IN  IF c = "error" THEN [heap |-> h, error |-> TRUE]
             ELSE IF c = "false" THEN [heap |-> h, error |-> FALSE]
             ELSE siftdown(Swap(h, pos + 1, parentpos + 1), startpos, parentpos)
    ELSE [heap |-> h, error |-> FALSE]

\* heapq's _siftup: bubble the smaller child up to a leaf, then _siftdown
RECURSIVE siftup(_, _)
siftup(h, pos) ==
    IF pos < Len(h) \div 2
    THEN LET left == 2 * pos + 1
             c == IF left + 1 < Len(h) THEN Cmp(h[left + 1], h[left + 2])
                  ELSE "true"
             childpos == IF c = "true" THEN left ELSE left + 1
         IN  IF c = "error" THEN [heap |-> h, error |-> TRUE]
             ELSE siftup(Swap(h, childpos + 1, pos + 1), childpos)
    ELSE siftdown(h, 0, pos)

\* heappush: the item is appended first and stays in the list when a
\* comparison raises
heappush(h, item) == siftdown(Append(h, item), 0, Len(h))

\* heappop: the last item replaces the root, which is returned unless a
\* comparison raises while the heap is restored
heappop(h) ==
    LET lastelt == h[Len(h)]
        rest == SubSeq(h, 1, Len(h) - 1)
    IN  IF rest = <<>> THEN [heap |-> rest, item |-> lastelt, error |-> FALSE]
        ELSE LET r == siftup([rest EXCEPT ![1] = lastelt], 0)
             IN  [heap |-> r.heap, item |-> rest[1], error |-> r.error]

\* subscribe(event_type, callback), before the first publish and once per
\* callback, as _setup_event_handlers does
SubscribeWith(handlers) ==
    \E type \in EventTypes :
      \E cb \in handlers[type] :
        /\ pubs = <<>>
        /\ \A i \in 1..Len(subscribers[type]) : subscribers[type][i] # cb
        /\ subscribers' = [subscribers EXCEPT ![type] = Append(@, cb)]
        /\ UNCHANGED <<heap, running, executor_shutdown, worker, exec_queue,
                       pubs, invoked, blocked, perfVars, sceneVars, pipeVars,
                       rulesVars, stabVars, ttsVars, appVars, orchVars>>

Subscribe == SubscribeWith([type \in EventTypes |-> HandlersOf(type)])

SubscribeBlocking ==
    SubscribeWith([type \in EventTypes |-> BlockingHandlersOf(type)])

\* some call of the callback that raises has been made
CallbackRaised ==
    \E i \in 1..Len(invoked) : invoked[i]["cb_raises"] > 0

\* publish(): the Event is built and put() with the clock's current reading;
\* a TypeError of heappush reaches the caller
PublishWith(types, priorities, limit) ==
    \E type \in types, priority \in priorities :
        LET id == Len(pubs) + 1
            entry == [prio |-> priority, time |-> clock,
                      event |-> [type |-> type, timestamp |-> clock], id |-> id]
            r == heappush(heap, entry)
        IN  /\ Len(pubs) < limit
            /\ heap' = r.heap
            /\ pubs' = Append(pubs, [type |-> type, raised |-> r.error,
                                     running |-> running,
                                     after_raise |-> CallbackRaised])
            /\ invoked' = Append(invoked, [cb \in Callbacks |-> 0])
            /\ UNCHANGED <<subscribers, running, executor_shutdown, worker,
                           exec_queue, blocked, perfVars, sceneVars, pipeVars,
                           rulesVars, stabVars, ttsVars, appVars, orchVars>>

Publish == PublishWith(EventTypes, Priorities, MaxPublish)

\* a burst of publish() calls with the default priority
PublishBurst == PublishWith(EventTypes, {5}, MaxBurst)

\* the publish() calls of a run that is stopped
PublishStop == PublishWith(EventTypes, {5}, MaxStopPublish)

\* publish() calls of one event type with the default priority, by a
\* publisher that waits until the bus has handed the previous event over
PublishFocus ==
    /\ heap = <<>>
    /\ exec_queue = <<>>
    /\ worker.pc \in {"test", "get"}
    /\ PublishWith({"FOCUS_MODE_CHANGED"}, {5}, MaxBlockingPublish)

\* the dispatcher thread: where it is, the publish number and priority of the
\* event in hand, and the entries that event left behind in the queue
Idle == [pc |-> "test", id |-> 0, callbacks |-> <<>>, prio |-> 0, behind |-> {}]
Dead == [pc |-> "dead", id |-> 0, callbacks |-> <<>>, prio |-> 0, behind |-> {}]

WorkerTest_bug_ignores_stop ==
    /\ worker.pc = "test"
    /\ worker' = [worker EXCEPT !.pc = "get"]
    /\ UNCHANGED <<subscribers, heap, running, executor_shutdown, exec_queue,
                   pubs, invoked, blocked, perfVars, sceneVars, pipeVars,
                   rulesVars, stabVars, ttsVars, appVars, orchVars>>

\* _process_events: the loop test
WorkerTest ==
    /\ worker.pc = "test"
    /\ worker' = IF running THEN [worker EXCEPT !.pc = "get"]
                 ELSE [worker EXCEPT !.pc = "exited"]
    /\ UNCHANGED <<subscribers, heap, running, executor_shutdown, exec_queue,
                   pubs, invoked, blocked, perfVars, sceneVars, pipeVars,
                   rulesVars, stabVars, ttsVars, appVars, orchVars>>

\* _process_events: get(timeout=0.1) and the subscriber lookup; queue.Empty
\* restarts the loop, a TypeError of heappop ends the thread
WorkerGet ==
    /\ worker.pc = "get"
    /\ IF heap = <<>>
       THEN /\ worker' = Idle
            /\ heap' = heap
       ELSE LET r == heappop(heap)
            IN  /\ heap' = r.heap
                /\ worker' = IF r.error THEN Dead
                             ELSE [pc |-> "submit", id |-> r.item.id,
                                   callbacks |-> subscribers[r.item.event.type],
                                   prio |-> r.item.prio,
                                   behind |-> {[id |-> r.heap[i].id,
                                                prio |-> r.heap[i].prio] :
                                                  i \in 1..Len(r.heap)}]
    /\ UNCHANGED <<subscribers, running, executor_shutdown, exec_queue, pubs,
                   invoked, blocked, perfVars, sceneVars, pipeVars, rulesVars, stabVars, ttsVars, appVars, orchVars>>

\* _process_events: one round of the loop over callbacks; submit() after
\* shutdown() raises RuntimeError, which ends the thread
WorkerSubmit ==
    /\ worker.pc = "submit"
    /\ IF worker.callbacks = <<>>
       THEN /\ worker' = Idle
            /\ exec_queue' = exec_queue
       ELSE IF executor_shutdown
       THEN /\ worker' = Dead
            /\ exec_queue' = exec_queue
       ELSE /\ worker' = [worker EXCEPT !.callbacks = Tail(@)]
            /\ exec_queue' = Append(exec_queue,
                                    [id |-> worker.id,
                                     callback |-> Head(worker.callbacks)])
    /\ UNCHANGED <<subscribers, heap, running, executor_shutdown, pubs,
                   invoked, blocked, perfVars, sceneVars, pipeVars, rulesVars, stabVars, ttsVars, appVars, orchVars>>

\* _safe_execute on a pool thread: the free threads take the oldest tasks,
\* one of which calls its callback; an exception of the callback is caught
\* and printed, a callback that never returns keeps its thread
SafeExecute ==
    \E i \in 1..Len(exec_queue) :
        /\ i <= BusPoolWorkers - blocked
        /\ blocked' = IF exec_queue[i].callback = "cb_blocks"
                      THEN blocked + 1 ELSE blocked
        /\ invoked' = [invoked EXCEPT
                         ![exec_queue[i].id][exec_queue[i].callback] = @ + 1]
        /\ exec_queue' = RemoveAt(exec_queue, i)
        /\ UNCHANGED <<subscribers, heap, running, executor_shutdown, worker,
                       pubs, perfVars, sceneVars, pipeVars, rulesVars, stabVars, ttsVars, appVars, orchVars>>

\* stop(): _running = False and shutdown(wait=False)
Stop ==
    /\ running
    /\ running' = FALSE
    /\ executor_shutdown' = TRUE
    /\ UNCHANGED <<subscribers, heap, worker, exec_queue, pubs, invoked,
                   blocked, perfVars, sceneVars, pipeVars, rulesVars, stabVars, ttsVars, appVars, orchVars>>

InitBus ==
    /\ subscribers = [type \in EventTypes |-> <<>>]
    /\ heap = <<>>
    /\ running = TRUE
    /\ executor_shutdown = FALSE
    /\ worker = Idle
    /\ exec_queue = <<>>
    /\ pubs = <<>>
    /\ invoked = <<>>
    /\ blocked = 0

\* a running bus under a burst of publish() calls
NextBusBurst == Subscribe \/ PublishBurst \/ WorkerTest \/ WorkerGet
                  \/ WorkerSubmit \/ SafeExecute \/ ClockTick

\* a bus that is stopped while events and callbacks are pending
NextBusStop == Subscribe \/ PublishStop \/ WorkerTest \/ WorkerGet
                 \/ WorkerSubmit \/ SafeExecute \/ Stop

\* a running bus with a subscriber that blocks
NextBusBlocking == SubscribeBlocking \/ PublishFocus \/ WorkerTest \/ WorkerGet
                     \/ WorkerSubmit \/ SafeExecute

NextBus == Subscribe \/ Publish \/ WorkerTest \/ WorkerGet \/ WorkerSubmit
             \/ SafeExecute \/ Stop \/ ClockTick

-----------------------------------------------------------------------------
(* GestureRecognizer / EmotionDetector: the stability filter               *)

\* the raw classifications a frame can have (three members of the Gesture or
\* Emotion enum; every member is truthy)
Classes == {"a", "b", "c"}

\* the detector classes that carry the filter
DetectorKinds == {"gesture", "emotion"}

\* no detector has been constructed
NoDetector ==
    [kind |-> "None", stability_frames |-> 0, history |-> <<>>,
     stable |-> "None", result |-> "None", prev_result |-> "None"]

\* the number of entries of history equal to v
RECURSIVE Count(_, _)
Count(v, history) ==
    IF history = <<>> THEN 0
    ELSE (IF Head(history) = v THEN 1 ELSE 0) + Count(v, Tail(history))

\* the index of the first entry of history equal to v
FirstIndex(v, history) ==
    CHOOSE i \in 1..Len(history) :
        /\ history[i] = v
        /\ \A j \in 1..(i - 1) : history[j] # v

\* Counter(history).most_common(1)[0][0]: the value with the highest count,
\* the one inserted first into the Counter among equals
MostCommon(history) ==
    CHOOSE v \in SeqRange(history) :
        \A w \in SeqRange(history) \ {v} :
            \/ Count(v, history) > Count(w, history)
            \/ /\ Count(v, history) = Count(w, history)
               /\ FirstIndex(v, history) < FirstIndex(w, history)

\* the count from which the most common value becomes the stable one
Threshold(kind, stability_frames) ==
    IF kind = "gesture" THEN stability_frames - 1
    ELSE (stability_frames \div 2) + 1

\* history.append(raw); pop(0) when it is longer than stability_frames
Evict(history, stability_frames) ==
    IF Len(history) > stability_frames THEN Tail(history) ELSE history

\* _update_stability(raw): the detector's fields afterwards; result is the
\* classification handed to the caller
update_stability(det, raw) ==
    LET history == Evict(Append(det.history, raw), det.stability_frames)
        stable == IF /\ Len(history) >= det.stability_frames
                     /\ Count(MostCommon(history), history)
                            >= Threshold(det.kind, det.stability_frames)
                  THEN MostCommon(history)
                  ELSE det.stable
    IN  [det EXCEPT !.history = history,
                    !.stable = stable,
                    !.prev_result = det.result,
                    !.result = IF stable # "None" THEN stable ELSE raw]

\* _reset_stability(), and detect() returning None
reset_stability_bug_keeps_history(det) ==
    [det EXCEPT !.stable = "None",
                !.prev_result = det.result,
                !.result = "None"]

reset_stability(det) ==
    [det EXCEPT !.history = <<>>,
                !.stable = "None",
                !.prev_result = det.result,
                !.result = "None"]

\* GestureRecognizer(stability_frames = k) or EmotionDetector(stability_frames = k)
NewDetector ==
    /\ stability.kind = "None"
    /\ \E kind \in DetectorKinds, k \in 1..MaxStabilityFrames :
        stability' = [NoDetector EXCEPT !.kind = kind, !.stability_frames = k]
    /\ UNCHANGED <<frames, perfVars, sceneVars, pipeVars, rulesVars, busVars, ttsVars, appVars, orchVars>>

\* detect(frame) on a frame with a hand or a face: _update_stability(raw)
DetectClass ==
    /\ stability.kind # "None"
    /\ Len(frames) < MaxFrames
    /\ \E raw \in Classes :
        /\ stability' = update_stability(stability, raw)
        /\ frames' = Append(frames, raw)
    /\ UNCHANGED <<perfVars, sceneVars, pipeVars, rulesVars, busVars, ttsVars, appVars, orchVars>>

\* detect(frame) on a frame without a hand or a face: _reset_stability()
DetectNothing ==
    /\ stability.kind # "None"
    /\ Len(frames) < MaxFrames
    /\ stability' = reset_stability(stability)
    /\ frames' = Append(frames, "None")
    /\ UNCHANGED <<perfVars, sceneVars, pipeVars, rulesVars, busVars, ttsVars, appVars, orchVars>>

InitStability ==
    /\ stability = NoDetector
    /\ frames = <<>>

NextStability == NewDetector \/ DetectClass \/ DetectNothing

-----------------------------------------------------------------------------
(* TTSEngine  (interface/tts_engine.py)                                    *)
(*                                                                         *)
(* speak() puts a text on self.queue; the worker thread takes the texts    *)
(* one by one and plays each inside 'with self._lock'; speak_now() plays   *)
(* on the caller's thread, inside the same lock.  The k-th text handed to  *)
(* speak() or speak_now() is the number k.                                 *)

\* the threads that call speak_now(): the main thread (key handler) and a
\* pool thread of the event bus (the quit command)
SpeakNowCallers == {"main", "pool"}

NotSpeaking == [pc |-> "idle", text |-> 0]

\* the texts being played right now, by thread
Playing ==
    {c \in SpeakNowCallers : tts.callers[c].pc = "playing"}
        \cup (IF tts.worker.pc = "playing" THEN {"worker"} ELSE {})

\* is_busy(): self._speaking or not self.queue.empty()
is_busy == tts.speaking \/ tts.queue # <<>>

\* start(): the worker thread is created unless one is alive
TtsStart ==
    /\ tts.worker.pc \in {"none", "exited"}
    /\ tts' = [tts EXCEPT !.worker = [pc |-> "test", text |-> 0]]
    /\ UNCHANGED <<perfVars, sceneVars, pipeVars, rulesVars, busVars, stabVars, appVars, orchVars>>

\* speak(text): self.queue.put(text)
TtsSpeak ==
    /\ tts.texts < MaxSpeak
    /\ tts' = [tts EXCEPT !.texts = @ + 1,
                          !.queue = Append(@, tts.texts + 1),
                          !.enqueued = Append(@, tts.texts + 1)]
    /\ UNCHANGED <<perfVars, sceneVars, pipeVars, rulesVars, busVars, stabVars, appVars, orchVars>>

\* _worker: while self.running
TtsWorkerTest ==
    /\ tts.worker.pc = "test"
    /\ tts' = [tts EXCEPT !.worker.pc = IF tts.running THEN "get" ELSE "exited"]
    /\ UNCHANGED <<perfVars, sceneVars, pipeVars, rulesVars, busVars, stabVars, appVars, orchVars>>

\* _worker: text = self.queue.get(timeout=0.5); None ends the thread,
\* queue.Empty goes back to the loop test
TtsWorkerGet ==
    /\ tts.worker.pc = "get"
    /\ tts' = IF tts.queue = <<>>
              THEN [tts EXCEPT !.worker.pc = "test"]
              ELSE IF Head(tts.queue) = 0
              THEN [tts EXCEPT !.worker.pc = "exited", !.queue = Tail(@)]
              ELSE [tts EXCEPT !.worker = [pc |-> "lock", text |-> Head(tts.queue)],
                               !.queue = Tail(@)]
    /\ UNCHANGED <<perfVars, sceneVars, pipeVars, rulesVars, busVars, stabVars, appVars, orchVars>>

\* _speak_text on the worker: with self._lock, then the backend plays
TtsWorkerPlay_bug_no_lock ==
    /\ tts.worker.pc = "lock"
    /\ tts' = [tts EXCEPT !.worker.pc = "playing",
                          !.speaking = TRUE,
                          !.played = Append(@, tts.worker.text)]
    /\ UNCHANGED <<perfVars, sceneVars, pipeVars, rulesVars, busVars, stabVars, appVars, orchVars>>

TtsWorkerPlay ==
    /\ tts.worker.pc = "lock"
    /\ tts.lock = "free"
    /\ tts' = [tts EXCEPT !.worker.pc = "playing",
                          !.lock = "worker",
                          !.speaking = TRUE,
                          !.played = Append(@, tts.worker.text)]
    /\ UNCHANGED <<perfVars, sceneVars, pipeVars, rulesVars, busVars, stabVars, appVars, orchVars>>

\* the backend returns (or raises, which _worker catches): the lock is
\* released, task_done(), back to the loop test
TtsWorkerDone ==
    /\ tts.worker.pc = "playing"
    /\ tts' = [tts EXCEPT !.worker = [pc |-> "test", text |-> 0],
                          !.lock = "free",
                          !.speaking = FALSE]
    /\ UNCHANGED <<perfVars, sceneVars, pipeVars, rulesVars, busVars, stabVars, appVars, orchVars>>

\* speak_now(text) on a caller's thread: _speak_text(text) is entered
TtsSpeakNow ==
    \E c \in SpeakNowCallers :
        /\ tts.callers[c].pc = "idle"
        /\ tts.texts < MaxSpeak
        /\ tts' = [tts EXCEPT !.texts = @ + 1,
                              !.callers[c] = [pc |-> "lock", text |-> tts.texts + 1]]
        /\ UNCHANGED <<perfVars, sceneVars, pipeVars, rulesVars, busVars, stabVars, appVars, orchVars>>

\* _speak_text on the caller's thread: with self._lock, then the backend plays
TtsSpeakNowPlay ==
    \E c \in SpeakNowCallers :
        /\ tts.callers[c].pc = "lock"
        /\ tts.lock = "free"
        /\ tts' = [tts EXCEPT !.callers[c].pc = "playing",
                              !.lock = c,
                              !.speaking = TRUE]
        /\ UNCHANGED <<perfVars, sceneVars, pipeVars, rulesVars, busVars, stabVars, appVars, orchVars>>

\* the backend returns on the caller's thread: the lock is released
TtsSpeakNowDone ==
    \E c \in SpeakNowCallers :
        /\ tts.callers[c].pc = "playing"
        /\ tts' = [tts EXCEPT !.callers[c] = NotSpeaking,
                              !.lock = "free",
                              !.speaking = FALSE]
        /\ UNCHANGED <<perfVars, sceneVars, pipeVars, rulesVars, busVars, stabVars, appVars, orchVars>>

\* stop(): running = False and the None sentinel (here 0) is queued
TtsStop ==
    /\ tts.running
    /\ tts' = [tts EXCEPT !.running = FALSE, !.queue = Append(@, 0)]
    /\ UNCHANGED <<perfVars, sceneVars, pipeVars, rulesVars, busVars, stabVars, appVars, orchVars>>

\* TTSEngine.__init__; texts counts the texts handed in so far, enqueued and
\* played log the texts put on the queue and those the worker began to play
InitTts ==
    tts = [queue |-> <<>>, running |-> TRUE, speaking |-> FALSE,
           lock |-> "free", worker |-> [pc |-> "none", text |-> 0],
           callers |-> [c \in SpeakNowCallers |-> NotSpeaking],
           texts |-> 0, enqueued |-> <<>>, played |-> <<>>]

NextTts == TtsStart \/ TtsSpeak \/ TtsWorkerTest \/ TtsWorkerGet \/ TtsWorkerPlay
             \/ TtsWorkerDone \/ TtsSpeakNow \/ TtsSpeakNowPlay
             \/ TtsSpeakNowDone \/ TtsStop

-----------------------------------------------------------------------------
(* The dashboard thread and the orchestrator thread on one SceneState      *)
(* (interface/dashboard.py 529-557, main.py 262-327, scene_state.py 5-84)  *)
(*                                                                         *)
(* SceneState has no lock.  update() runs on the orchestrator thread and   *)
(* assigns the fields of self.human one statement after the other;         *)
(* stats_broadcaster() runs on a thread of its own and reads the fields    *)
(* one expression after the other.  The interpreter can switch threads     *)
(* between any two statements, so every interleaving of the steps below    *)
(* is a run.  list(self.objects.keys()) is one call into the interpreter   *)
(* and is taken as one step, as are the object loop of update() and the    *)
(* statements that follow the first assignments of each branch.            *)

\* the perception results of the dashboard runs; the pipeline reports a name
\* only on frames on which the person is detected with a pose
DashFrames ==
    {[dets |-> <<PersonDet>>, pose |-> Pose(KPSitting), identity |-> "Jay"],
     [dets |-> <<PersonDet>>, pose |-> Pose(KPSitting), identity |-> "None"],
     [dets |-> <<>>, pose |-> PoseNone, identity |-> "None"],
     [dets |-> <<PhoneDet>>, pose |-> PoseNone, identity |-> "None"]}

NoStats == [called |-> FALSE, human_present |-> FALSE, identity |-> "None",
            focus_mode |-> FALSE, objects |-> {}]

\* scene_state.py 26-53: self.width and the loop over the detections
DashUpdateObjects ==
    \E frame \in DashFrames :
        /\ dash.writer = "idle"
        /\ scene_time < MaxDashTime
        /\ width' = 640
        /\ objects' = UpdateObjects(objects, frame.dets, scene_time + 1, 640)
        /\ scene_time' = scene_time + 1
        /\ dash' = [dash EXCEPT !.writer = "present", !.frame = frame]
        /\ UNCHANGED <<human, upd, cmds, perfVars, pipeVars, rulesVars, busVars,
                       stabVars, ttsVars, orchVars>>

\* scene_state.py 58 and 79: self.human['present'] = True / False
DashUpdatePresent ==
    LET detected == HumanDetected(dash.frame.pose, PersonDetected(dash.frame.dets))
    IN  /\ dash.writer = "present"
        /\ human' = [human EXCEPT !.present = detected]
        /\ dash' = [dash EXCEPT !.writer = IF detected THEN "rest" ELSE "identity"]
        /\ UNCHANGED <<objects, width, scene_time, upd, cmds, perfVars, pipeVars,
                       rulesVars, busVars, stabVars, ttsVars, orchVars>>

\* scene_state.py 80: self.human['identity'] = None
DashUpdateIdentity ==
    /\ dash.writer = "identity"
    /\ human' = [human EXCEPT !.identity = "None"]
    /\ dash' = [dash EXCEPT !.writer = "rest"]
    /\ UNCHANGED <<objects, width, scene_time, upd, cmds, perfVars, pipeVars,
                   rulesVars, busVars, stabVars, ttsVars, orchVars>>

\* scene_state.py 59-75 and 82-84: the other assignments of the branch
DashUpdateRest ==
    /\ dash.writer = "rest"
    /\ human' = UpdateHuman(human, dash.frame.dets, dash.frame.pose, scene_time)
    /\ upd' = [called |-> TRUE, labels |-> DetLabels(dash.frame.dets),
               pose |-> dash.frame.pose]
    /\ dash' = [dash EXCEPT !.writer = "sync"]
    /\ UNCHANGED <<objects, width, scene_time, cmds, perfVars, pipeVars,
                   rulesVars, busVars, stabVars, ttsVars, orchVars>>

\* main.py 285: self.scene_state.human['identity'] = identity
DashSyncIdentity ==
    /\ dash.writer = "sync"
    /\ human' = [human EXCEPT !.identity = dash.frame.identity]
    /\ dash' = [dash EXCEPT !.writer = "idle"]
    /\ UNCHANGED <<objects, width, scene_time, upd, cmds, perfVars, pipeVars,
                   rulesVars, busVars, stabVars, ttsVars, orchVars>>

\* dashboard.py 550: scene_state_ref.human['present']
StatsReadPresent ==
    /\ dash.reader = "present"
    /\ dash' = [dash EXCEPT !.reader = "identity",
                            !.stats = [NoStats EXCEPT
                                          !.human_present = human.present]]
    /\ UNCHANGED <<sceneVars, cmds, perfVars, pipeVars, rulesVars, busVars,
                   stabVars, ttsVars, orchVars>>

\* dashboard.py 551: scene_state_ref.human['identity']
StatsReadIdentity ==
    /\ dash.reader = "identity"
    /\ dash' = [dash EXCEPT !.reader = "focus_mode",
                            !.stats.identity = human.identity]
    /\ UNCHANGED <<sceneVars, cmds, perfVars, pipeVars, rulesVars, busVars,
                   stabVars, ttsVars, orchVars>>

\* dashboard.py 552: scene_state_ref.focus_mode
StatsReadFocusMode ==
    /\ dash.reader = "focus_mode"
    /\ dash' = [dash EXCEPT !.reader = "objects",
                            !.stats.focus_mode = focus_mode]
    /\ UNCHANGED <<sceneVars, cmds, perfVars, pipeVars, rulesVars, busVars,
                   stabVars, ttsVars, orchVars>>

\* dashboard.py 553 and 549: list(scene_state_ref.objects.keys()), and
\* socketio.emit('stats_update', ...) of the dict just built
StatsEmit ==
    /\ dash.reader = "objects"
    /\ dash' = [dash EXCEPT
                   !.reader = "present",
                   !.emitted = [dash.stats EXCEPT
                                   !.called = TRUE,
                                   !.objects = {l \in Labels : objects[l].tracked}]]
    /\ UNCHANGED <<sceneVars, cmds, perfVars, pipeVars, rulesVars, busVars,
                   stabVars, ttsVars, orchVars>>

InitDash ==
    dash = [writer |-> "idle",
            frame |-> [dets |-> <<>>, pose |-> PoseNone, identity |-> "None"],
            reader |-> "present",
            stats |-> NoStats,
            emitted |-> NoStats]

NextDash == DashUpdateObjects \/ DashUpdatePresent \/ DashUpdateIdentity
              \/ DashUpdateRest \/ DashSyncIdentity
              \/ StatsReadPresent \/ StatsReadIdentity \/ StatsReadFocusMode
              \/ StatsEmit

-----------------------------------------------------------------------------
(* The dashboard's command path (dashboard.py 529-536, main.py 314-327).   *)
(* Both ends address the queue as scene_state.pending_commands; an         *)
(* attribute SceneState.__init__ has not created raises AttributeError.    *)

\* the attributes SceneState.__init__ creates (scene_state.py 5-23)
SceneStateAttributes == {"objects", "human", "focus_mode", "register_trigger",
                         "register_name", "width"}

\* request.json.get('command'): a missing or empty command, or a text
CommandTexts == {"", "status", "focus on"}

\* api_command(): a command is queued when it is truthy and the queue exists
ApiCommand ==
    \E cmd \in CommandTexts :
        /\ cmds.loop = "running"
        /\ Len(cmds.posted) < MaxCommands
        /\ cmds' = IF cmd = "" THEN [cmds EXCEPT !.replies = Append(@, "error")]
                   ELSE IF "pending_commands" \in SceneStateAttributes
                   THEN [cmds EXCEPT !.posted = Append(@, cmd),
                                     !.pending_commands = Append(@, cmd),
                                     !.replies = Append(@, "queued")]
                   ELSE [cmds EXCEPT !.posted = Append(@, cmd),
                                     !.replies = Append(@, "AttributeError")]
        /\ Len(cmds'.replies) <= MaxCommands
        /\ UNCHANGED <<dash, perfVars, sceneVars, pipeVars, rulesVars, busVars,
                       stabVars, ttsVars, orchVars>>

\* _check_dashboard_commands() at the end of _update_state(): the while
\* test is outside the try, and the run loop (main.py 582-598) catches
\* nothing, so an exception of the test ends the frame loop
CheckDashboardCommands ==
    /\ cmds.loop = "running"
    /\ cmds.iterations < MaxIterations
    /\ cmds' = IF "pending_commands" \in SceneStateAttributes
               THEN [cmds EXCEPT !.published = @ \o cmds.pending_commands,
                                 !.pending_commands = <<>>,
                                 !.iterations = @ + 1]
               ELSE [cmds EXCEPT !.loop = "AttributeError",
                                 !.iterations = @ + 1]
    /\ UNCHANGED <<dash, perfVars, sceneVars, pipeVars, rulesVars, busVars,
                   stabVars, ttsVars, orchVars>>

InitCommands ==
    cmds = [loop |-> "running", iterations |-> 0, posted |-> <<>>,
            pending_commands |-> <<>>, published |-> <<>>, replies |-> <<>>]

NextCommands == ApiCommand \/ CheckDashboardCommands

-----------------------------------------------------------------------------
(* Focus toggle requests  (core/engine.py 383-387, 481-493;                *)
(* main.py 139-149, 625-630).  A request reads scene_state.focus_mode and  *)
(* publishes FOCUS_MODE_CHANGED with the inverted value; the bus hands the *)
(* event to _on_focus_change later, on a pool thread.  The bus is taken    *)
(* at its best here: events are dispatched one at a time in the order      *)
(* they were published.                                                    *)

\* the 'f' command (CommandProcessor.process) or the 'f' key (MEMOApp.run)
FocusToggleRequest ==
    /\ toggle.requests < MaxToggles
    /\ toggle' = [toggle EXCEPT !.requests = @ + 1,
                                !.published = Append(@, ~focus_mode)]
    /\ UNCHANGED <<speech, rulesVars, perfVars, sceneVars, pipeVars, busVars,
                   stabVars, ttsVars, appVars>>

\* the dispatch of the oldest FOCUS_MODE_CHANGED event to _on_focus_change
FocusChangedDispatch ==
    /\ toggle.published # <<>>
    /\ focus_mode' = Head(toggle.published)
    /\ toggle' = [toggle EXCEPT !.published = Tail(@)]
    /\ UNCHANGED <<speech, rules, events, fired, trace, raised, perfVars,
                   sceneVars, pipeVars, busVars, stabVars, ttsVars, appVars>>

InitToggle == toggle = [requests |-> 0, published |-> <<>>]

NextToggle == FocusToggleRequest \/ FocusChangedDispatch

InitSpeech == speech = [last_tts_time |-> 0, spoken |-> <<>>, discarded |-> <<>>]

Init == InitPerf /\ InitScene /\ InitPipe /\ InitRules /\ InitBus /\ InitStability /\ InitTts
          /\ InitDash /\ InitCommands /\ InitToggle /\ InitSpeech

Next == NextPerf \/ NextSkip \/ NextScene \/ NextZones \/ NextIdentity
          \/ NextPipe \/ NextRules \/ NextObjects \/ NextRobust
          \/ NextHydration \/ NextBus
          \/ NextBusBurst \/ NextBusStop \/ NextBusBlocking \/ NextStability
          \/ NextTts \/ NextPipeTrace \/ NextWarm
          \/ NextGreeting \/ NextDash \/ NextCommands
          \/ NextPosture \/ NextPose \/ NextToggle \/ NextSpeech

Spec == Init /\ [][Next]_vars

SpecPerf == Init /\ [][NextPerf]_vars

SpecSkip == Init /\ [][NextSkip]_vars

SpecScene == Init /\ [][NextScene]_vars

SpecZones == Init /\ [][NextZones]_vars

SpecIdentity == Init /\ [][NextIdentity]_vars

SpecPose == Init /\ [][NextPose]_vars

SpecPipe == Init /\ [][NextPipe]_vars

SpecPipeTrace == Init /\ [][NextPipeTrace]_vars

SpecWarm == Init /\ [][NextWarm]_vars

SpecRules == Init /\ [][NextRules]_vars

SpecObjects == Init /\ [][NextObjects]_vars

SpecRobust == Init /\ [][NextRobust]_vars

SpecGreeting == Init /\ [][NextGreeting]_vars

SpecPosture == Init /\ [][NextPosture]_vars

SpecSpeech == Init /\ [][NextSpeech]_vars

SpecHydration == Init /\ [][NextHydration]_vars

SpecBus == Init /\ [][NextBus]_vars

SpecBusBurst == Init /\ [][NextBusBurst]_vars

SpecBusStop == Init /\ [][NextBusStop]_vars

SpecBusBlocking == Init /\ [][NextBusBlocking]_vars

SpecStability == Init /\ [][NextStability]_vars

SpecTts == Init /\ [][NextTts]_vars

SpecDash == Init /\ [][NextDash]_vars

SpecCommands == Init /\ [][NextCommands]_vars

SpecToggle == Init /\ [][NextToggle]_vars

-----------------------------------------------------------------------------
(* Claims about EventBus                                                   *)

\* publish number i is neither queued, nor in the dispatcher's hands, nor
\* waiting in the executor: the bus has nothing left to do for it
Settled(i) ==
    /\ \A e \in SeqRange(heap) : e.id # i
    /\ ~(worker.pc = "submit" /\ worker.id = i)
    /\ \A task \in SeqRange(exec_queue) : task.id # i

\* C1 (as stated): on a running EventBus, for every event whose publish()
\* returned, each callback subscribed to the event's type is invoked exactly
\* once: never twice, and once by the time the bus has nothing left to do for
\* the event, also when another callback of the type raises.
C1_EachCallbackExactlyOnce ==
    running =>
        \A i \in 1..Len(pubs) :
            ~pubs[i].raised =>
                \A cb \in SeqRange(subscribers[pubs[i].type]) :
                    /\ invoked[i][cb] <= 1
                    /\ Settled(i) => invoked[i][cb] = 1

\* C12 (as stated): publish() never fails, and an event the dispatcher
\* dequeues comes before every event it leaves behind in the queue: it has a
\* lower priority number, or the same priority and was published earlier
\* (also when the two arrival timestamps are equal).
C12_DequeuedInPriorityThenArrivalOrder ==
    /\ \A i \in 1..Len(pubs) : ~pubs[i].raised
    /\ worker.pc = "submit" =>
          \A e \in worker.behind :
              \/ worker.prio < e.prio
              \/ (worker.prio = e.prio /\ worker.id < e.id)

\* C13 (as stated): an exception of a subscriber callback never reaches the
\* dispatcher: once a callback has raised, the dispatcher of a running bus is
\* still alive, and every event published after the exception is delivered
\* once to each subscriber of its type by the time the bus has nothing left
\* to do for it.
C13_CallbackExceptionConfined ==
    running =>
        /\ CallbackRaised => worker.pc # "dead"
        /\ \A j \in 1..Len(pubs) :
              (pubs[j].after_raise /\ ~pubs[j].raised /\ Settled(j)) =>
                  \A cb \in SeqRange(subscribers[pubs[j].type]) :
                      invoked[j][cb] = 1

\* the dispatcher's distance from the end of _process_events
Rank(w) ==
    CASE w.pc = "get" -> 3
      [] w.pc = "submit" -> 2
      [] w.pc = "test" -> 1
      [] OTHER -> 0

\* C14: after stop() every step of the dispatcher brings it closer to the end
\* of its loop (at most one get(), one submit round and one loop test remain),
\* whatever the queue contains and whatever callbacks are pending: it never
\* starts another round.
C14_DispatcherWindsDownAfterStop ==
    [][~running => (worker' # worker => Rank(worker') < Rank(worker))]_vars

\* C14 witness: the bus is stopped and the dispatcher has left its loop while
\* events are still queued and callbacks are still waiting in the executor
C14_Witness ==
    /\ ~running
    /\ worker.pc = "exited"
    /\ heap # <<>>
    /\ exec_queue # <<>>

\* C15 (as stated): callbacks that block never stop the dispatcher and never
\* keep the callback of another subscriber from being started: a pool thread
\* is free for every waiting call of a callback that does not block.
C15_BlockingCallbackStallsNoOne ==
    /\ worker.pc # "dead"
    /\ \A task \in SeqRange(exec_queue) :
          task.callback # "cb_blocks" => blocked < BusPoolWorkers

-----------------------------------------------------------------------------
(* Claims about SceneState                                                 *)

\* C2: after any update() call, human.present is true only if that call's
\* detections contain a 'person' label and its pose argument is non-null; if
\* either is missing, present is false whatever the other input and the
\* previous state were.
C2_PresentOnlyWithPersonAndPose ==
    upd.called =>
        /\ human.present => ("person" \in upd.labels /\ upd.pose.kind # "None")
        /\ ("person" \notin upd.labels \/ upd.pose.kind = "None") => ~human.present

\* C2 witness: update(detections=[person], pose=None) on a state whose human
\* had been seen before left present false.
C2_Witness ==
    /\ upd.called
    /\ "person" \in upd.labels
    /\ upd.pose.kind = "None"
    /\ human.last_seen > 0
    /\ ~human.present

\* twice the centre x of the bbox stored for a label
Cx2(label) == 2 * objects[label].bbox[1] + objects[label].bbox[3]

\* C3 (as stated): a detection whose centre x is exactly W/3 and one whose
\* centre x is exactly 2W/3 are both put in zone "center"; centres strictly
\* below W/3 are "left" and strictly above 2W/3 are "right".
C3_BothBoundariesCenter ==
    upd.called =>
        \A l \in upd.labels :
            /\ 3 * Cx2(l) = 2 * width => objects[l].position = "center"
            /\ 3 * Cx2(l) = 4 * width => objects[l].position = "center"
            /\ 3 * Cx2(l) < 2 * width => objects[l].position = "left"
            /\ 3 * Cx2(l) > 4 * width => objects[l].position = "right"

\* C3 (amended): a centre x of exactly W/3 is put in zone "center" and a
\* centre x of exactly 2W/3 in zone "right"; centres strictly below W/3 are
\* "left", centres from W/3 up to but excluding 2W/3 are "center", centres at
\* or above 2W/3 are "right".
C3_LowerBoundaryCenterUpperRight ==
    upd.called =>
        \A l \in upd.labels :
            /\ objects[l].tracked
            /\ 3 * Cx2(l) = 2 * width => objects[l].position = "center"
            /\ 3 * Cx2(l) = 4 * width => objects[l].position = "right"
            /\ 3 * Cx2(l) < 2 * width => objects[l].position = "left"
            /\ 3 * Cx2(l) > 4 * width => objects[l].position = "right"
            /\ (2 * width < 3 * Cx2(l) /\ 3 * Cx2(l) < 4 * width)
                  => objects[l].position = "center"

\* C3 witness: an update() call detected one object centred exactly at W/3 and
\* one centred exactly at 2W/3.
C3_Witness ==
    /\ upd.called
    /\ \E l \in upd.labels :
          3 * Cx2(l) = 4 * width /\ objects[l].position = "right"
    /\ \E l \in upd.labels :
          3 * Cx2(l) = 2 * width /\ objects[l].position = "center"

\* pose_start_time: the key may be missing from the human dict
PoseStart(h) == <<h.has_pose_start_time, h.pose_start_time>>

\* the classification the latest update() call computed, "none" when it did
\* not reach _determine_pose
Classified(u) ==
    IF u.called /\ HumanDetected(u.pose, "person" \in u.labels)
    THEN determine_pose(u.pose.keypoints) ELSE "none"

\* C4 (as stated): pose_start_time changes only on a call in which pose_state
\* transitions to a different non-unknown state; a call whose classification
\* equals the current pose_state leaves pose_start_time unchanged.
C4_PoseStartOnlyOnTransition ==
    [][ /\ PoseStart(human') # PoseStart(human)
            => (human'.pose_state # human.pose_state
                  /\ human'.pose_state # "unknown")
        /\ Classified(upd') = human.pose_state
            => PoseStart(human') = PoseStart(human) ]_vars

\* C4 (amended): pose_start_time changes only on a call in which pose_state
\* transitions to a different non-unknown state, or on a call that finds the
\* human present while pose_start_time has never been set (it is initialised
\* to that call's timestamp, also when the classification is "unknown"); once
\* it is set, a call whose classification equals the current pose_state
\* leaves it unchanged.
C4_PoseStartOnTransitionOrInit ==
    [][ /\ PoseStart(human') # PoseStart(human)
            => /\ PoseStart(human') = <<TRUE, scene_time'>>
               /\ human'.present
               /\ \/ (human'.pose_state # human.pose_state
                        /\ human'.pose_state # "unknown")
                  \/ ~human.has_pose_start_time
        /\ (Classified(upd') = human.pose_state /\ human.has_pose_start_time)
            => PoseStart(human') = PoseStart(human) ]_vars

\* C4 witness: an update() call classified the pose the human already had and
\* pose_start_time still holds the earlier timestamp.
C4_Witness ==
    /\ upd.called
    /\ human.present
    /\ human.pose_state \in {"sitting", "standing"}
    /\ Classified(upd) = human.pose_state
    /\ human.has_pose_start_time
    /\ human.pose_start_time < scene_time

-----------------------------------------------------------------------------
(* Claims about PerceptionPipeline                                         *)

\* C5: when an enabled channel's provider raises an exception or exceeds its
\* timeout during process(), process() returns normally, the value returned
\* for that channel equals the value cached for it before the call, and that
\* cache slot is unchanged.
C5_FailedChannelFallsBackToCache ==
    proc.called =>
        \A c \in Channels :
            proc.outcome[c] \in {"raise", "timeout"} =>
                /\ ~proc.raised
                /\ proc.results[c] = proc.cache_before[c]
                /\ cache[c] = proc.cache_before[c]

\* C5 witness: a process() call whose detector raised while a value from an
\* earlier call was cached: the call returned that value and kept the slot.
C5_Witness ==
    /\ proc.called
    /\ proc.outcome["detections"] = "raise"
    /\ proc.cache_before["detections"] = "dets1"
    /\ proc.results["detections"] = "dets1"
    /\ cache["detections"] = "dets1"
    /\ ~proc.raised

\* the sum of the timeouts of the channels a process() call enabled
EnabledTimeouts(p) ==
    SumOver({c \in Channels : p.flags[c]}, [c \in Channels |-> Timeout(c)])

\* C6 (as stated): every call to process() returns after waiting at most the
\* sum of the per-channel timeouts of the enabled channels, whatever the
\* providers do, also when a channel is used for the first time in that call.
C6_WaitWithinTimeouts ==
    proc.called => proc.waited <= EnabledTimeouts(proc)

\* C6 (amended): every call to process() in which no enabled channel is
\* constructed (each enabled provider was built by warmup() or by an earlier
\* call) returns after waiting at most the sum of the per-channel timeouts of
\* the enabled channels, whatever the providers do.
C6_WaitWithinTimeoutsOnceConstructed ==
    (proc.called /\ proc.constructed = {}) =>
        proc.waited <= EnabledTimeouts(proc)

\* C6 witness: a process() call with all three channels enabled and already
\* constructed, none of whose provider calls returned: it waited 0.21 s.
C6_Witness ==
    /\ proc.called
    /\ proc.constructed = {}
    /\ \A c \in Channels : proc.flags[c] /\ proc.outcome[c] = "timeout"
    /\ proc.waited = DetectionTimeout + PoseTimeout + IdentityTimeout

-----------------------------------------------------------------------------
(* Claims about RulesEngine                                                *)

\* the cooldown of a category under CooldownConfig
Cooldown(cat) ==
    CASE cat = "posture" -> PostureCooldown
      [] cat = "focus" -> CooldownConfig.focus_cooldown
      [] cat = "hydration" -> CooldownConfig.hydration_cooldown
      [] cat = "proximity" -> CooldownConfig.proximity_cooldown

\* C7: for each cooldown-gated category (focus distraction, screen proximity,
\* hydration, posture), any two firings of that category on successive
\* check_rules ticks are at least that category's cooldown apart.
C7_FiringsCooldownApart ==
    \A cat \in Categories :
        fired[cat].prev >= 0 =>
            fired[cat].last - fired[cat].prev >= Cooldown(cat)

\* C7 witness: every category has fired twice, posture exactly 60 s apart
C7_Witness ==
    /\ \A cat \in Categories : fired[cat].prev >= 0
    /\ fired["posture"].last - fired["posture"].prev = PostureCooldown

\* C8 (as stated): in the hydration scenario (hydration_cooldown 30, bottle
\* last seen at t = 0, human present on every tick up to t = 40) exactly one
\* hydration reminder is emitted, at or after t = 30: never a second one,
\* none before t = 30, and one has been emitted when the tick at t = 40 is done.
C8_ExactlyOneReminderFrom30 ==
    /\ fired["hydration"].prev = -1
    /\ fired["hydration"].last # -1 => fired["hydration"].last >= 30
    /\ scene_time = HydrationScenarioEnd => fired["hydration"].last # -1

\* the object-event trace, for the label 'cell phone'
SeenAt(i) == "cell phone" \in trace[i].seen
AppearedAt(i) == Ev("appeared", "cell phone") \in trace[i].events

\* frames i < j < k of the pattern [seen, seen, gap > timeout, seen]: i is the
\* first sighting, j the next frame, k the first sighting after j
SightingPattern(i, j, k) ==
    /\ j = i + 1 /\ j < k
    /\ SeenAt(i) /\ SeenAt(j) /\ SeenAt(k)
    /\ \A m \in 1..(i - 1) : ~SeenAt(m)
    /\ \A m \in (j + 1)..(k - 1) : ~SeenAt(m)
    /\ trace[k].t - trace[j].t > ShortConfig.object_visibility_timeout

\* a check_rules tick inside the gap found the last sighting timed out
ExpirySeen(j, k) ==
    \E m \in (j + 1)..(k - 1) :
        trace[m].t - trace[j].t >= ShortConfig.object_visibility_timeout

\* C9 (as stated): for the pattern [seen, seen, gap longer than
\* object_visibility_timeout, seen] "Object appeared" is emitted on the first
\* sighting, not on the repeated sighting, and once more on the sighting
\* after the gap.
C9_ReappearanceRetriggers ==
    \A i, j, k \in 1..Len(trace) :
        SightingPattern(i, j, k) =>
            /\ AppearedAt(i)
            /\ ~AppearedAt(j)
            /\ \A m \in (j + 1)..(k - 1) : ~AppearedAt(m)
            /\ AppearedAt(k)

\* C9 (amended): as above, but the sighting after the gap emits "Object
\* appeared" exactly when some check_rules tick inside the gap ran
\* object_visibility_timeout or more after the last sighting; when no tick
\* did, the sighting after the gap emits nothing.
C9_ReappearanceRetriggersAfterExpiryTick ==
    \A i, j, k \in 1..Len(trace) :
        SightingPattern(i, j, k) =>
            /\ AppearedAt(i)
            /\ ~AppearedAt(j)
            /\ \A m \in (j + 1)..(k - 1) : ~AppearedAt(m)
            /\ AppearedAt(k) <=> ExpirySeen(j, k)

\* C9 witness: the pattern with a tick in the gap that saw the timeout, and
\* "Object appeared" emitted again on the sighting after the gap
C9_Witness ==
    \E i, j, k \in 1..Len(trace) :
        /\ SightingPattern(i, j, k)
        /\ ExpirySeen(j, k)
        /\ AppearedAt(i) /\ ~AppearedAt(j) /\ AppearedAt(k)

-----------------------------------------------------------------------------
(* Claims about PerformanceMonitor                                         *)

\* the interval C11 states: frame_skip, doubled when the CPU reading is above
\* the threshold
C11_Interval(call) ==
    IF call.cpu10 <= 10 * cpu_threshold
    THEN FrameSkip(call.is_raspberry_pi)
    ELSE 2 * FrameSkip(call.is_raspberry_pi)

\* C11: should_skip_frame(frame_index) returns false exactly when
\* frame_index % interval = 0, where interval is frame_skip when
\* cpu <= cpu_threshold and 2 * frame_skip when cpu > cpu_threshold; the result
\* depends on (frame_index, cpu reading) only, whatever calls came before.
C11_SkipUnlessMultipleOfInterval ==
    skip_call.called =>
        (skip_call.result = FALSE
            <=> skip_call.frame_count % C11_Interval(skip_call) = 0)

\* C11 witness: on a Raspberry Pi under load, frame 3 is skipped (3 is a
\* multiple of frame_skip but not of the doubled interval)
C11_Witness ==
    /\ skip_call.called
    /\ skip_call.is_raspberry_pi
    /\ skip_call.cpu10 > 10 * cpu_threshold
    /\ skip_call.frame_count = 3
    /\ skip_call.result = TRUE

\* C10 (as stated): get_fps() returns 0 whenever fewer than 2 frame timestamps
\* have been recorded and a strictly positive value whenever 2 or more have.
C10_FpsPositiveFromTwoSamples ==
    /\ fps_result.samples < 2 => fps_result.value = RatZero
    /\ fps_result.samples >= 2 => RatPositive(fps_result.value)

\* C10 (amended): get_fps() returns 0 when fewer than 2 timestamps are recorded
\* or when the newest recorded timestamp is not later than the oldest one, and
\* otherwise returns count / (newest - oldest), which is strictly positive.
C10_FpsPositiveIffElapsed ==
    /\ fps_result.samples <= max_samples
    /\ (fps_result.samples < 2 \/ fps_result.newest <= fps_result.oldest)
          => fps_result.value = RatZero
    /\ (fps_result.samples >= 2 /\ fps_result.newest > fps_result.oldest)
          => /\ fps_result.value
                  = Rat(fps_result.samples, fps_result.newest - fps_result.oldest)
             /\ RatPositive(fps_result.value)

\* C10 witness: a get_fps() call that saw two or more samples all taken at the
\* same clock reading and returned 0.
C10_Witness ==
    /\ fps_result.samples >= 2
    /\ fps_result.newest = fps_result.oldest
    /\ fps_result.value = RatZero

-----------------------------------------------------------------------------
(* Claims about the stability filter                                       *)

\* the index of the last frame without a detection, 0 when there is none
LastGap(fs) ==
    IF \E i \in 1..Len(fs) : fs[i] = "None"
    THEN CHOOSE i \in 1..Len(fs) :
            /\ fs[i] = "None"
            /\ \A j \in (i + 1)..Len(fs) : fs[j] # "None"
    ELSE 0

\* the raw classifications since the last frame without a detection
SinceGap(fs) == SubSeq(fs, LastGap(fs) + 1, Len(fs))

\* the last k entries of s
LastK(s, k) == IF Len(s) > k THEN SubSeq(s, Len(s) - k + 1, Len(s)) ELSE s

\* C16 (as stated): the classification a detector returns differs from the
\* one it returned for the frame before only when some value holds a strict
\* majority of the window, more than stability_frames / 2 entries.
C16_ReturnedChangesOnlyOnMajority ==
    (/\ stability.prev_result # "None"
     /\ stability.result # "None"
     /\ stability.result # stability.prev_result)
    => \E v \in Classes :
           2 * Count(v, stability.history) > stability.stability_frames

\* C17: the window is the last stability_frames raw classifications since
\* the last frame without a detection, never longer than stability_frames;
\* right after a frame without a detection the window is empty and the
\* stable value unset; a stable value is one classified since that frame.
C17_WindowIsLastKSinceGap ==
    stability.kind # "None" =>
        /\ Len(stability.history) <= stability.stability_frames
        /\ stability.history = LastK(SinceGap(frames), stability.stability_frames)
        /\ (frames # <<>> /\ Last(frames) = "None")
               => (stability.history = <<>> /\ stability.stable = "None")
        /\ stability.stable # "None"
               => stability.stable \in SeqRange(SinceGap(frames))

\* a detector that saw classifications, then a frame without a detection,
\* then more classifications than its window holds, and has a stable value
C17_Witness ==
    /\ stability.kind # "None"
    /\ LastGap(frames) > 1
    /\ Len(SinceGap(frames)) > stability.stability_frames
    /\ stability.stable # "None"

-----------------------------------------------------------------------------
(* Claims about SceneState: identity and the object map                    *)

\* C18: every update() call that leaves human.present false leaves
\* human.identity None: the call that makes the human absent clears the
\* identity itself.
C18_AbsentAfterUpdateHasNoIdentity ==
    [][UpdateIdentity => (~human'.present => human'.identity = "None")]_vars

\* C18 witness: an update() call later than the human's last sighting left
\* the human absent and without an identity.
C18_Witness ==
    /\ upd.called
    /\ ~human.present
    /\ human.last_seen > 0
    /\ scene_time > human.last_seen
    /\ human.identity = "None"

\* C19: over any sequence of update() calls no tracked label is ever
\* dropped, every label detected in a call has last_seen equal to the call's
\* timestamp afterwards, and the entry of a label the call did not detect is
\* left as it was (the map holds one entry per label: a sighting overwrites).
C19_ObjectsOverwrittenNeverDeleted ==
    [][ /\ \A l \in Labels : objects[l].tracked => objects'[l].tracked
        /\ \A l \in upd'.labels :
              objects'[l].tracked /\ objects'[l].last_seen = scene_time'
        /\ \A l \in Labels \ upd'.labels : objects'[l] = objects[l] ]_vars

\* C19 witness: the latest update() call detected one label and did not
\* detect another one that is tracked with an earlier last_seen.
C19_Witness ==
    /\ upd.called
    /\ \E l \in upd.labels : objects[l].last_seen = scene_time
    /\ \E l \in Labels \ upd.labels :
          objects[l].tracked /\ objects[l].last_seen < scene_time

-----------------------------------------------------------------------------
(* Claims about RulesEngine: robustness                                    *)

\* the event kinds check_rules() can return
EventKinds == {"appeared", "disappeared", "posture", "focus", "hydration",
               "proximity", "hello", "welcome back"}

-----------------------------------------------------------------------------
(* Claims about TTSEngine                                                  *)

C22_RecognitionOnlyOnSameFramePose ==
    proc.called =>
        (proc.face_pose # "none" =>
            /\ proc.outcome["pose"] = "done"
            /\ proc.results["pose"] # "None"
            /\ proc.face_pose = "fresh")

\* C23: no process() call made after warmup() has returned performs the
\* first-use construction of a channel, whatever its flags.
C23_NoConstructionAfterWarmup ==
    proc.called => proc.constructed = {}

\* C26: when a provider call that overran its timeout completes, its result
\* is written into the cache slot of its channel.
C26_LateResultIsCached ==
    proc.late # NoLate => cache[proc.late.chan] = proc.late.value

\* C27: when one enabled channel raises or times out, every other enabled
\* channel whose provider completed within its own timeout still returns its
\* fresh result and stores it in its cache slot.
C27_OtherChannelsStayFresh ==
    proc.called =>
        \A c \in Channels :
            (/\ proc.provider[c].kind = "done"
             /\ \E d \in Channels \ {c} :
                    proc.provider[d].kind \in {"raise", "timeout"})
            => /\ proc.results[c] = proc.provider[c].value
               /\ cache[c] = proc.provider[c].value

\* C28: every channel kind has a worker of its own: a provider call waits
\* for a worker only while an earlier call of its own channel is running.
C28_CallWaitsOnlyForItsOwnChannel ==
    \A i \in 1..Len(pool_pending) :
        \E j \in 1..Len(pool_running) : pool_running[j] = pool_pending[i]

\* C29: at the end of every orchestrator iteration (update(), the identity
\* sync, check_rules()) human.identity is non-null only if human.present is
\* true, also when the pipeline handed over a cached identity.
C29_IdentityOnlyWhilePresent ==
    upd.called => (human.identity # "None" => human.present)

\* C30: while the same identity is reported on consecutive ticks it is
\* greeted once: the tick that finds the identity of the tick before emits
\* no greeting.
C30_SameIdentityGreetedOnce ==
    [][(/\ scene_time' # scene_time
        /\ human.identity # "None"
        /\ human'.identity = human.identity)
       => ~(\E e \in events' : e.kind \in {"hello", "welcome back"})]_vars

\* C24: the stats the dashboard thread reads while update() runs are never
\* torn: no emitted snapshot has human_present false together with the
\* identity of the person who was there before.
C24_NoTornSnapshot ==
    dash.emitted.called =>
        (dash.emitted.identity # "None" => dash.emitted.human_present)

\* C25: no command the dashboard accepted is lost or duplicated (the
\* published commands followed by the queued ones are the posted ones, in
\* order), and consuming commands never stops the frame loop.
C25_CommandsPublishedInOrder ==
    /\ cmds.published \o cmds.pending_commands = cmds.posted
    /\ cmds.loop = "running"

\* the threshold of a pose in the configuration of the posture runs
DwellThreshold(pose) == IF pose = "sitting" THEN ShortConfig.sitting_reminder
                        ELSE ShortConfig.standing_reminder

\* pose_state has been pose on every tick from j to k
HeldFrom(j, k, pose) == \A m \in j..k : trace[m].pose_state = pose

\* C31: a posture reminder is emitted only on a tick where the human is
\* present and pose_state has been the reminder's pose, on every tick, for
\* longer than the threshold of that pose; a tick with another pose_state
\* restarts the measurement.
C31_ReminderOnlyAfterDwell ==
    \A k \in 1..Len(trace) :
        \A e \in trace[k].events :
            e.kind = "posture" =>
                /\ trace[k].present
                /\ trace[k].pose_state = e.arg
                /\ \E j \in 1..k :
                       /\ HeldFrom(j, k, e.arg)
                       /\ trace[k].t - trace[j].t > DwellThreshold(e.arg)

\* a reminder for a pose that was entered from the other pose
C31_Witness ==
    \E k \in 1..Len(trace) :
        \E e \in trace[k].events, j \in 1..k :
            /\ e.kind = "posture"
            /\ trace[j].pose_state \in {"sitting", "standing"} \ {e.arg}

\* the latest update() call was given a person detection and a pose with a
\* keypoint map
PersonWithPose(u) ==
    /\ u.called
    /\ "person" \in u.labels
    /\ Truthy(u.pose) /\ HasKeypointsKey(u.pose)

HipAndKneeKeypoints == {"LEFT_HIP", "RIGHT_HIP", "LEFT_KNEE", "RIGHT_KNEE"}

\* C32: an update() call with a person detection and a pose that lacks a hip
\* or knee keypoint ends with pose_state "unknown"; one whose pose has all
\* hip and knee keypoints ends with pose_state sitting or standing.
C32_UnknownIffHipOrKneeMissing ==
    [][PersonWithPose(upd') =>
          IF HipAndKneeKeypoints \subseteq DOMAIN upd'.pose.keypoints
          THEN human'.pose_state \in {"sitting", "standing"}
          ELSE human'.pose_state = "unknown"]_vars

\* C32 (amended): an update() call with a person detection and a pose that
\* lacks one of the six required keypoints (hips, knees and ankles) raises
\* nothing and leaves pose_state as it was ("unknown" only if it was
\* "unknown"); one whose pose has all six ends with pose_state sitting or
\* standing.
C32_UnknownKeepsPoseState ==
    [][PersonWithPose(upd') =>
          /\ human'.present
          /\ IF RequiredKeypoints \subseteq DOMAIN upd'.pose.keypoints
             THEN human'.pose_state \in {"sitting", "standing"}
             ELSE human'.pose_state = human.pose_state]_vars

\* a pose without leg keypoints was given while pose_state was sitting
C32_Witness ==
    /\ PersonWithPose(upd)
    /\ ~(RequiredKeypoints \subseteq DOMAIN upd.pose.keypoints)
    /\ human.present
    /\ human.pose_state = "sitting"

\* C33: a hydration reminder is emitted only on a tick where a human is
\* present, no bottle is visible and a bottle has been observed before; and
\* once a bottle has been observed, at whatever timestamp, the reminder is
\* engaged (the rule holds a time of the last bottle sighting).
C33_EngagedOnceBottleObserved ==
    /\ Fires(events, "hydration") =>
           /\ human.present
           /\ "bottle" \notin upd.labels
           /\ objects["bottle"].tracked
    /\ (upd.called /\ objects["bottle"].tracked) => rules.last_bottle_seen > 0

\* the ticks of the trace with an appeared or disappeared event for label
ObjectEventAt(i, kind, label) == Ev(kind, label) \in trace[i].events
ObjectEventTicks(label) ==
    {i \in 1..Len(trace) : \/ ObjectEventAt(i, "appeared", label)
                           \/ ObjectEventAt(i, "disappeared", label)}

\* C34: for every label the appeared and disappeared events alternate over
\* the ticks, starting with appeared: no tick carries both, the first event
\* is appeared, the event after an appeared is a disappeared and conversely;
\* so a disappeared only follows an appeared, for a label that was in the
\* visible set, and the label is in the visible set exactly after an appeared.
C34_AppearedDisappearedAlternate ==
    \A label \in Labels :
        LET ticks == ObjectEventTicks(label)
        IN  /\ \A i \in ticks : ~(/\ ObjectEventAt(i, "appeared", label)
                                  /\ ObjectEventAt(i, "disappeared", label))
            /\ \A i \in ticks :
                   (\A j \in ticks : i <= j) => ObjectEventAt(i, "appeared", label)
            /\ \A i, k \in ticks :
                   (i < k /\ \A j \in ticks : ~(i < j /\ j < k))
                   => (ObjectEventAt(i, "appeared", label)
                         <=> ObjectEventAt(k, "disappeared", label))
            /\ \A k \in ticks :
                   (\A j \in ticks : j <= k)
                   => (ObjectEventAt(k, "appeared", label)
                         <=> label \in rules.prev_objects)
            /\ ticks = {} => label \notin rules.prev_objects

\* the phone appeared, disappeared, appeared again and disappeared again
C34_Witness ==
    \E i, j, k, m \in 1..Len(trace) :
        /\ i < j /\ j < k /\ k < m
        /\ ObjectEventAt(i, "appeared", "cell phone")
        /\ ObjectEventAt(j, "disappeared", "cell phone")
        /\ ObjectEventAt(k, "appeared", "cell phone")
        /\ ObjectEventAt(m, "disappeared", "cell phone")

\* C35: once every focus toggle request has been dispatched, focus_mode
\* differs from its initial value (off) exactly when the number of requests
\* is odd.
C35_EachToggleInvertsOnce ==
    toggle.published = <<>> => (focus_mode <=> toggle.requests % 2 = 1)

\* C36: from the moment speak() has put a text on the queue until the
\* worker has finished playing it (the text is on the queue, or the worker
\* has taken it and is about to play or playing it), is_busy() returns true.
C36_BusyUntilPlayed ==
    (\/ \E i \in 1..Len(tts.queue) : tts.queue[i] # 0
     \/ tts.worker.pc \in {"lock", "playing"})
    => is_busy

\* C37 (as stated): the dispatcher thread ends only by finding _running false
\* at the top of its loop: no interleaving of stop() with a dispatch in
\* progress makes a step of the submit loop end the thread through an
\* exception.
C37_DispatcherEndsOnlyByLoopTest ==
    [][worker.pc = "submit" => worker'.pc # "dead"]_vars

\* the alert time a rule records when it raises an event of this kind
AlertTime(kind) ==
    CASE kind = "posture" -> rules.last_posture_alert
      [] kind = "focus" -> rules.last_focus_alert
      [] kind = "hydration" -> rules.last_hydration_alert
      [] kind = "proximity" -> rules.last_proximity_alert
      [] OTHER -> rules.last_greeted_time

\* the events of the frame at time t
RaisedAt(t) ==
    UNION {trace[i].events : i \in {j \in 1..Len(trace) : trace[j].t = t}}

\* C38: two rule events handed to speak() are at least five seconds apart;
\* an event is spoken or dropped in the frame that raised it and never both,
\* a dropped one came within five seconds of last_tts_time, and the rule of an
\* event dropped in the latest frame has recorded that frame as its alert time.
C38_RuleUtterancesFiveSecondsApart ==
    /\ \A i \in 1..Len(speech.spoken) : \A j \in 1..Len(speech.spoken) :
           i < j => speech.spoken[j].t - speech.spoken[i].t >= TtsThrottle
    /\ \A i \in 1..Len(speech.spoken) :
           /\ speech.spoken[i].text \in RaisedAt(speech.spoken[i].t)
           /\ \A j \in 1..Len(speech.discarded) :
                  speech.discarded[j] # speech.spoken[i]
    /\ \A j \in 1..Len(speech.discarded) :
           LET d == speech.discarded[j]
               before == {speech.spoken[i].t : i \in 1..Len(speech.spoken)}
                            \cap 0..d.t
           IN  /\ d.text \in RaisedAt(d.t)
               /\ \/ d.t <= TtsThrottle
                  \/ \E t \in before : d.t - t <= TtsThrottle
               /\ d.t = scene_time => AlertTime(d.text.kind) = d.t

\* C38 witness: an event was dropped in a frame after a spoken one and in which
\* nothing was spoken, and an event of the same kind was spoken in a later
\* frame
C38_Witness ==
    \E i \in 1..Len(speech.spoken), j \in 1..Len(speech.discarded),
       k \in 1..Len(speech.spoken) :
        /\ speech.spoken[i].t < speech.discarded[j].t
        /\ speech.discarded[j].t < speech.spoken[k].t
        /\ \A m \in 1..Len(speech.spoken) :
               speech.spoken[m].t # speech.discarded[j].t
        /\ speech.spoken[k].text.kind = speech.discarded[j].text.kind

\* the frame indices of the 2 * frame_skip consecutive frames from the index
\* of the last call
C39_Window ==
    skip_call.frame_count ..
        skip_call.frame_count + 2 * FrameSkip(skip_call.is_raspberry_pi) - 1

\* C39: backpressure only removes frames: a frame that is processed while the
\* CPU reading is above the threshold is also processed at every reading at or
\* below it, and at either CPU level at least one frame of every
\* 2 * frame_skip consecutive indices is processed.
C39_BackpressureOnlyRemovesFrames ==
    skip_call.called =>
        LET frame_skip == FrameSkip(skip_call.is_raspberry_pi)
        IN  /\ (skip_call.cpu10 > 10 * cpu_threshold /\ ~skip_call.result)
                   => \A cpu10 \in CpuReadings :
                          cpu10 <= 10 * cpu_threshold
                              => ~should_skip_frame(skip_call.frame_count,
                                                    cpu10, frame_skip)
            /\ \A cpu10 \in CpuReadings :
                   \E k \in C39_Window : ~should_skip_frame(k, cpu10, frame_skip)

\* C39 witness: on a Raspberry Pi under load frame 6 is processed, and frames
\* 7 to 11 of the window that starts with it are not
C39_Witness ==
    /\ skip_call.called
    /\ skip_call.is_raspberry_pi
    /\ skip_call.cpu10 > 10 * cpu_threshold
    /\ skip_call.frame_count = 6
    /\ skip_call.result = FALSE
    /\ \A k \in C39_Window \ {6} :
           should_skip_frame(k, skip_call.cpu10, FrameSkip(TRUE))

\* C40: a process() call that returns has, for a channel that was not
\* requested, constructed and called no provider, left the cache slot as it
\* was and returned the cached value; and for every channel the value it
\* returned is the one in the channel's cache slot.
C40_ReturnedValuesAreTheCache ==
    (proc.called /\ ~proc.raised) =>
        \A c \in Channels :
            /\ ~proc.flags[c] =>
                   /\ c \notin proc.constructed
                   /\ proc.outcome[c] = "none"
                   /\ cache[c] = proc.cache_before[c]
                   /\ proc.results[c] = proc.cache_before[c]
            /\ proc.results[c] = cache[c]

\* C40 witness: a call without detection returns the detections cached by an
\* earlier call, a fresh pose that differs from the cached one, and the cached
\* identity because recognition timed out
C40_Witness ==
    /\ proc.called
    /\ ~proc.raised
    /\ ~proc.flags["detections"]
    /\ proc.cache_before["detections"] = "dets1"
    /\ proc.results["detections"] = "dets1"
    /\ proc.outcome["pose"] = "done"
    /\ proc.results["pose"] # proc.cache_before["pose"]
    /\ proc.outcome["identity"] = "timeout"

=============================================================================
